---- MODULE Spec2Model ----
(***************************************************************************)
(* A model of the adaptive multi-strategy QR decode pipeline of            *)
(* LovelyAIQRcodeDecoder_rs: the tiered decoder (qr_decoder.rs,            *)
(* wechat_qr_decoder.rs), the enhanced transform search                    *)
(* (enhanced_processor.rs), the brute-force grid search                    *)
(* (brute_force_decoder.rs) and the single-file driver (main.rs).          *)
(*                                                                         *)
(* Conventions.  Confidences are f32 values in the source; the model keeps *)
(* them in hundredths (0.8 is 80).  The f64 scale factors of the grid are  *)
(* kept in tenths (0.2 is 2) and the f64 contrasts are whole numbers.      *)
(* What the external computer-vision library returns (detections, errors)  *)
(* is an input of the model, drawn from small sets.                        *)
(***************************************************************************)
EXTENDS Integers, Sequences, FiniteSets, TLC

VARIABLES
    \* ---- environment ----
    models_present,     \* the four files models/*.prototxt|caffemodel exist
    \* ---- QRDecoder (qr_decoder.rs) ----
    td_pc,              \* position inside QRDecoder::decode_qr_codes
    wechat_decoder,     \* self.wechat_decoder is Some
    td_min_confidence,  \* self.config.min_confidence, in hundredths
    td_image,           \* the image handed to decode_qr_codes
    results,            \* the local `results` of decode_qr_codes
    td_ret,             \* the value decode_qr_codes returned
    calls,              \* the backends invoked by the current call, in order
    outs,               \* what each backend of the current call returned
    \* ---- EnhancedImageProcessor (enhanced_processor.rs) ----
    en_pc,              \* position inside decode_with_transforms
    en_min_confidence,  \* self.decoder_config.min_confidence
    en_image,           \* the image handed to decode_with_transforms
    en_i,               \* 1-based index of the transform of the current iteration
    en_ret,             \* the value decode_with_transforms returned
    en_hit,             \* index of the first transform whose decode was non-empty, 0 if none yet
    en_after_hit,       \* a transform was applied or decoded after en_hit was set
    en_swallowed,       \* the failure the loop is going on from: "transform", "decoder" or ""
    \* ---- BruteForceDecoder (brute_force_decoder.rs) ----
    bf_pc,              \* position inside detect_and_decode
    bf_config,          \* self.config: duplicate_threshold and randomize
    bf_image,           \* the image handed to detect_and_decode
    bf_order,           \* the swaps combinations.shuffle made, <<>> when not shuffled
    bf_total,           \* combinations.len()
    bf_i,               \* 1-based index of the combination of the current iteration
    all_results,        \* the local `all_results` of detect_and_decode
    bf_hit_results,     \* what the decoder returned in the first iteration that found something
    bf_ret,             \* the value detect_and_decode returned
    bf_hit,             \* index of the first combination whose decode was non-empty, 0 if none yet
    bf_after_hit,       \* a combination was transformed or decoded after bf_hit was set
    \* ---- BruteForceDecoder::is_duplicate, called by itself ----
    dd_pc,              \* "idle", or "done" once is_duplicate returned
    dd_config,          \* self.config of the decoder it is called on
    dd_new,             \* its argument new_result
    dd_existing,        \* its argument existing_results
    dd_result,          \* the bool it returned
    \* ---- process_image (main.rs) ----
    pi_pc,              \* position inside process_image
    pi_config,          \* the ProcessingConfig: preprocess, brute_force, min_confidence
    pi_image,           \* the local `processed_image`
    pi_bf_started,      \* the brute-force branch was entered
    pi_final,           \* the local `final_results`
    pi_ret,             \* what process_image returned: "none" yet, "ok", or "err_" and its cause
    \* ---- the estimators and decode loops on one reported symbol ----
    es_pc,              \* "idle", or "done" once the functions returned
    es_symbol,          \* the symbol a backend reported: text, corner points, rectified side
    es_image,           \* the image it was found in
    es_confidence,      \* what the two confidence estimators returned for it
    es_returns,         \* what the three detect-and-decode functions returned for it
    \* ---- BatchProcessor (batch_processor.rs) ----
    ba_pc,              \* position inside process_batch
    ba_config,          \* BatchConfig: recursive, randomize
    ba_directory,       \* the directory tree on disk
    ba_files,           \* the local `files` of process_batch
    ba_i,               \* 1-based index of the file of the current iteration
    ba_stats,           \* the local `stats` of process_batch
    ba_results,         \* the local `results` of process_batch
    ba_strategies,      \* per attempted file, the search strategies run on it, in order
    ba_ret,             \* what process_batch returned
    ba_args,            \* the user's Args: recursive, randomize
    ba_shuffled,        \* per searched file, whether detect_and_decode shuffled the grid
    ba_callbacks,       \* per call of progress_callback, the stats it was handed
    ba_main_stats,      \* the stats main's process_batch rebuilds from the results
    \* ---- the transform functions, called by themselves ----
    tr_pc,              \* "idle", or "done" once the function returned
    tr_call,            \* the function called and its arguments
    tr_ret,             \* what it returned and the primitives it invoked
    \* ---- BatchStats, its derived figures ----
    st_pc,              \* "idle", "read" once the figures were computed, "next" one file later
    st_stats,           \* the BatchStats read: total_files, processed_files, elapsed
    st_figures,         \* progress_percentage, processing_speed, estimated_remaining_time of it
    st_previous         \* st_figures of the stats one file earlier

tdVars == <<td_pc, wechat_decoder, td_min_confidence, td_image, results,
            td_ret, calls, outs>>
enVars == <<en_pc, en_min_confidence, en_image, en_i, en_ret, en_hit, en_after_hit,
           en_swallowed>>
bfVars == <<bf_pc, bf_config, bf_image, bf_order, bf_total, bf_i, all_results,
            bf_hit_results, bf_ret, bf_hit, bf_after_hit>>

ddVars == <<dd_pc, dd_config, dd_new, dd_existing, dd_result>>
piVars == <<pi_pc, pi_config, pi_image, pi_bf_started, pi_final, pi_ret>>
esVars == <<es_pc, es_symbol, es_image, es_confidence, es_returns>>
baVars == <<ba_pc, ba_config, ba_directory, ba_files, ba_i, ba_stats, ba_results,
            ba_strategies, ba_ret, ba_args, ba_shuffled, ba_callbacks,
            ba_main_stats>>

trVars == <<tr_pc, tr_call, tr_ret>>
stVars == <<st_pc, st_stats, st_figures, st_previous>>

\* what the actions of one component leave alone
tdOthers == <<enVars, bfVars, ddVars, piVars, esVars, baVars,
            trVars, stVars>>
enOthers == <<models_present, bfVars, ddVars, piVars, esVars, baVars,
            trVars, stVars>>
bfOthers == <<models_present, tdVars, enVars, ddVars, piVars, esVars, baVars,
            trVars, stVars>>
ddOthers == <<models_present, tdVars, enVars, bfVars, piVars, esVars, baVars,
            trVars, stVars>>
esOthers == <<models_present, tdVars, enVars, bfVars, ddVars, piVars, baVars,
            trVars, stVars>>
baOthers == <<models_present, tdVars, enVars, bfVars, ddVars, piVars, esVars,
             trVars, stVars>>
trOthers == <<models_present, tdVars, enVars, bfVars, ddVars, piVars, esVars, baVars,
             stVars>>
stOthers == <<models_present, tdVars, enVars, bfVars, ddVars, piVars, esVars, baVars,
             trVars>>

vars == <<models_present, tdVars, enVars, bfVars, ddVars, piVars, esVars, baVars,
            trVars, stVars>>

-----------------------------------------------------------------------------
(* Bounds of the model. *)

\* the largest number of symbols one backend call reports
MaxDetections == 2

\* the largest number of exchanges by which a shuffle departs from the
\* generation order
MaxSwaps == 1

-----------------------------------------------------------------------------
(* Small helpers. *)

Min(a, b) == IF a < b THEN a ELSE b
Max(a, b) == IF a > b THEN a ELSE b

RECURSIVE SeqsUpTo(_, _)
\* all sequences over S of length 0..n
SeqsUpTo(S, n) ==
    IF n = 0 THEN {<<>>}
    ELSE LET shorter == SeqsUpTo(S, n - 1)
         IN  shorter \cup {Append(s, e) : s \in {t \in shorter : Len(t) = n - 1}, e \in S}

\* the number of entries of seq equal to e
CountOf(e, seq) == Cardinality({k \in 1..Len(seq) : seq[k] = e})

\* the four corners of an axis-aligned box, clockwise from its origin
Box(x, y, w, h) == << <<x, y>>, <<x + w, y>>, <<x + w, y + h>>, <<x, y + h>> >>

-----------------------------------------------------------------------------
(* Inputs: images and what the backends report for them. *)

\* a Mat: its size and its number of channels
Images ==
    { [width |-> 640, height |-> 480, channels |-> 3],
      [width |-> 360, height |-> 190, channels |-> 3] }

\* the user's --min-confidence values tried, in hundredths
MinConfidences == {0, 80, 96}

\* symbols the WeChat backend may report: decoded text and corner points
WeChatDetections ==
    { [content |-> "A", corners |-> Box(130, 120, 40, 40)],
      [content |-> "B", corners |-> Box(100, 100, 8, 8)],
      [content |-> "D", corners |-> Box(300, 100, 20, 20)],
      [content |-> "",  corners |-> Box(20, 20, 40, 40)],
      [content |-> "C", corners |-> << <<5, 5>>, <<9, 5>>, <<9, 9>> >>] }

\* what WeChatQRCode::detect_and_decode may return
WeChatOutcomes ==
    { [err |-> TRUE, infos |-> <<>>] } \cup
    { [err |-> FALSE, infos |-> s] : s \in SeqsUpTo(WeChatDetections, MaxDetections) }

\* symbols the generic detector may report: text, corner points and the side
\* of the rectified (straight) image, 0 for an empty Mat
GenericDetections ==
    { [content |-> "A", corners |-> Box(130, 120, 40, 40), straight |-> 33],
      [content |-> "B", corners |-> Box(100, 100, 8, 8),   straight |-> 0],
      [content |-> "",  corners |-> Box(20, 20, 40, 40),   straight |-> 33],
      [content |-> "C", corners |-> << <<5, 5>>, <<9, 5>>, <<9, 9>> >>, straight |-> 15] }

\* what QRCodeDetector::detect_and_decode_multi may return
MultiOutcomes ==
    { [err |-> TRUE, infos |-> <<>>] } \cup
    { [err |-> FALSE, infos |-> s] : s \in SeqsUpTo(GenericDetections, MaxDetections) }

\* what QRCodeDetector::detect_and_decode may return: an error, or the bytes
\* of one symbol (valid UTF-8 or not) with its points and rectified image
SingleOutcomes ==
    { [err |-> TRUE, utf8 |-> TRUE, info |-> [content |-> "", corners |-> <<>>, straight |-> 0]] } \cup
    { [err |-> FALSE, utf8 |-> u, info |-> d] : u \in BOOLEAN, d \in GenericDetections }

-----------------------------------------------------------------------------
(* Geometry and confidence, shared by both backends. *)

RECURSIVE FoldMin(_, _, _)
FoldMin(corners, k, acc) ==
    IF corners = <<>> THEN acc
    ELSE FoldMin(Tail(corners), k, Min(acc, Head(corners)[k]))

RECURSIVE FoldMax(_, _, _)
FoldMax(corners, k, acc) ==
    IF corners = <<>> THEN acc
    ELSE FoldMax(Tail(corners), k, Max(acc, Head(corners)[k]))

\* The scans `min_x = min_x.min(x)` start from f32::MAX (f32::MIN for the
\* maxima); over a non-empty list that is the scan started from its first
\* entry.  k = 1 scans the x coordinates, k = 2 the y coordinates.
MinOf(corners, k) == FoldMin(Tail(corners), k, Head(corners)[k])
MaxOf(corners, k) == FoldMax(Tail(corners), k, Head(corners)[k])

\* QRPosition::new(min_x, min_y, max_x - min_x, max_y - min_y).with_corners(..)
calculate_position_from_corners(corners) ==
    IF Len(corners) < 4
    THEN [ok |-> FALSE, position |-> [x |-> 0, y |-> 0, width |-> 0, height |-> 0, corners |-> <<>>]]
    ELSE LET min_x == MinOf(corners, 1)
             max_x == MaxOf(corners, 1)
             min_y == MinOf(corners, 2)
             max_y == MaxOf(corners, 2)
         IN  [ok |-> TRUE,
              position |-> [x |-> min_x, y |-> min_y,
                            width |-> max_x - min_x, height |-> max_y - min_y,
                            corners |-> corners]]

\* bounding-box area of the corners, 0 for fewer than four
calculate_area_from_corners(corners) ==
    IF Len(corners) < 4 THEN 0
    ELSE (MaxOf(corners, 1) - MinOf(corners, 1))
         * (MaxOf(corners, 2) - MinOf(corners, 2))

\* an estimator that forgets the final min(1.0)
WeChat_calculate_confidence_Uncapped(corners, image) ==
    LET area == calculate_area_from_corners(corners)
    IN  80 + (IF Len(corners) >= 4 THEN 10 ELSE 0)
           + (IF area > 100 THEN 5 ELSE 0) + (IF area > 1000 THEN 5 ELSE 0)
           + (IF image.width > 200 /\ image.height > 200 THEN 5 ELSE 0)

\* WeChatQRDecoder::calculate_confidence, in hundredths
WeChat_calculate_confidence(corners, image) ==
    LET c0 == 80
        c1 == IF Len(corners) >= 4 THEN c0 + 10 ELSE c0
        area == calculate_area_from_corners(corners)
        c2 == IF area > 100 THEN c1 + 5 ELSE c1
        c3 == IF area > 1000 THEN c2 + 5 ELSE c2
        c4 == IF image.width > 200 /\ image.height > 200 THEN c3 + 5 ELSE c3
    IN  Min(c4, 100)

\* QRDecoder::calculate_confidence and calculate_confidence_from_corners
\* (the two bodies are the same), in hundredths
calculate_confidence_from_corners(corners, straight) ==
    LET c0 == 50
        c1 == IF Len(corners) >= 4 THEN c0 + 20 ELSE c0
        c2 == IF straight # 0 /\ straight > 20 THEN c1 + 20 ELSE c1
        c3 == IF Len(corners) >= 4 /\ calculate_area_from_corners(corners) > 100
              THEN c2 + 10 ELSE c2
    IN  Min(c3, 100)

QRCodeResult(content, position, confidence, qr_type) ==
    [content |-> content, position |-> position,
     confidence |-> confidence, qr_type |-> qr_type]

\* results.into_iter().filter(|r| r.confidence >= min_confidence).collect()
FilterByConfidence(rs, min_confidence) ==
    SelectSeq(rs, LAMBDA r : r.confidence >= min_confidence)

-----------------------------------------------------------------------------
(* The WeChat backend: WeChatQRDecoder::decode_qr_codes. *)

\* a loop without the `if decoded_info.is_empty() { continue; }`
WeChat_decode_loop_KeepEmpty(infos, image, acc) ==
    IF \E k \in 1..Len(infos) : ~calculate_position_from_corners(infos[k].corners).ok
    THEN [ok |-> FALSE, results |-> <<>>]
    ELSE [ok |-> TRUE,
          results |-> acc \o
              [k \in 1..Len(infos) |->
                  QRCodeResult(infos[k].content,
                               calculate_position_from_corners(infos[k].corners).position,
                               WeChat_calculate_confidence(infos[k].corners, image),
                               "WECHAT_QR_CODE")]]

RECURSIVE WeChat_decode_loop(_, _, _)
\* the loop `for i in 0..decoded_infos.len()`: an empty text is skipped, a
\* symbol with fewer than four corner points ends the call with an error
WeChat_decode_loop(infos, image, acc) ==
    IF infos = <<>> THEN [ok |-> TRUE, results |-> acc]
    ELSE LET d == Head(infos)
             pos == calculate_position_from_corners(d.corners)
         IN  IF d.content = "" THEN WeChat_decode_loop(Tail(infos), image, acc)
             ELSE IF ~pos.ok THEN [ok |-> FALSE, results |-> <<>>]
             ELSE WeChat_decode_loop(Tail(infos), image,
                      Append(acc, QRCodeResult(d.content, pos.position,
                                     WeChat_calculate_confidence(d.corners, image),
                                     "WECHAT_QR_CODE")))

\* The value returned for the backend outcome raw: ok/results is the Result,
\* unfiltered is the local `results` before the confidence filter of the
\* WeChat decoder itself, detected the number of symbols the backend reported.
WeChat_decode_qr_codes(raw, min_confidence, image) ==
    IF raw.err
    THEN [invoked |-> TRUE, ok |-> FALSE, results |-> <<>>, unfiltered |-> <<>>, detected |-> 0]
    ELSE IF raw.infos = <<>>
    THEN [invoked |-> TRUE, ok |-> TRUE, results |-> <<>>, unfiltered |-> <<>>, detected |-> 0]
    ELSE LET r == WeChat_decode_loop(raw.infos, image, <<>>)
         IN  IF ~r.ok
             THEN [invoked |-> TRUE, ok |-> FALSE, results |-> <<>>, unfiltered |-> <<>>,
                   detected |-> Len(raw.infos)]
             ELSE [invoked |-> TRUE, ok |-> TRUE,
                   results |-> FilterByConfidence(r.results, min_confidence),
                   unfiltered |-> r.results, detected |-> Len(raw.infos)]

-----------------------------------------------------------------------------
(* The generic backend: detect_and_decode_multi, detect_and_decode_single. *)

RECURSIVE multi_decode_loop(_, _)
multi_decode_loop(infos, acc) ==
    IF infos = <<>> THEN [ok |-> TRUE, results |-> acc]
    ELSE LET d == Head(infos)
             pos == calculate_position_from_corners(d.corners)
         IN  IF d.content = "" THEN multi_decode_loop(Tail(infos), acc)
             ELSE IF ~pos.ok THEN [ok |-> FALSE, results |-> <<>>]
             ELSE multi_decode_loop(Tail(infos),
                      Append(acc, QRCodeResult(d.content, pos.position,
                                     calculate_confidence_from_corners(d.corners, d.straight),
                                     "QR_CODE")))

detect_and_decode_multi(raw) ==
    IF raw.err THEN [invoked |-> TRUE, ok |-> FALSE, results |-> <<>>]
    ELSE IF raw.infos = <<>> THEN [invoked |-> TRUE, ok |-> TRUE, results |-> <<>>]
    ELSE LET r == multi_decode_loop(raw.infos, <<>>)
         IN  [invoked |-> TRUE, ok |-> r.ok, results |-> r.results]

\* Ok(result) is [ok |-> TRUE, results |-> <<result>>]; every Err, NoQRCodeFound
\* included, is [ok |-> FALSE, results |-> <<>>]
detect_and_decode_single(raw) ==
    LET pos == calculate_position_from_corners(raw.info.corners)
    IN  IF raw.err \/ raw.info.content = "" \/ ~raw.utf8 \/ ~pos.ok
        THEN [invoked |-> TRUE, ok |-> FALSE, results |-> <<>>]
        ELSE [invoked |-> TRUE, ok |-> TRUE,
              results |-> << QRCodeResult(raw.info.content, pos.position,
                                 calculate_confidence_from_corners(raw.info.corners,
                                                                   raw.info.straight),
                                 "QR_CODE") >>]

\* the Result part of a decoder answer
Answer3(d) == [invoked |-> d.invoked, ok |-> d.ok, results |-> d.results]

NotInvoked == [invoked |-> FALSE, ok |-> FALSE, results |-> <<>>]
NoOuts == [wechat |-> NotInvoked, multi |-> NotInvoked, single |-> NotInvoked]

-----------------------------------------------------------------------------
(* QRDecoder: construction and decode_qr_codes, one action per backend call. *)

\* WeChatQRDecoder::new succeeds exactly when the four model files exist (and
\* the library accepts them; the model takes the files to be well-formed)
WeChatQRDecoder_new == models_present

\* QRDecoder::new(config) followed by the entry of decode_qr_codes(image)
QRDecoder_start(min_confidence, image) ==
    /\ wechat_decoder' = WeChatQRDecoder_new
    /\ td_min_confidence' = min_confidence
    /\ td_image' = image
    /\ results' = <<>>
    /\ td_ret' = [ok |-> FALSE, results |-> <<>>]
    /\ calls' = <<>>
    /\ outs' = NoOuts
    /\ td_pc' = "start"

\* a QRDecoder that consults the generic backend whatever the WeChat decoder
\* answered
TdTryWeChat_AlwaysFallback ==
    /\ td_pc = "start"
    /\ wechat_decoder
    /\ \E raw \in WeChatOutcomes :
         LET w == WeChat_decode_qr_codes(raw, td_min_confidence, td_image)
         IN  /\ outs' = [outs EXCEPT !.wechat = w]
             /\ results' = IF w.ok THEN results \o w.results ELSE results
             /\ calls' = calls \o <<"wechat", "fallback">>
             /\ td_pc' = "multi"
    /\ UNCHANGED <<models_present, wechat_decoder, td_min_confidence, td_image, td_ret>>
    /\ UNCHANGED tdOthers

\* lines 66-93: the WeChat decoder is asked first; a non-empty answer is kept,
\* an empty answer or an error goes to fallback_decode
TdTryWeChat ==
    /\ td_pc = "start"
    /\ wechat_decoder
    /\ \E raw \in WeChatOutcomes :
         LET w == WeChat_decode_qr_codes(raw, td_min_confidence, td_image)
         IN  /\ outs' = [outs EXCEPT !.wechat = w]
             /\ IF w.ok /\ w.results # <<>>
                THEN /\ results' = results \o w.results
                     /\ calls' = Append(calls, "wechat")
                     /\ td_pc' = "filter"
                ELSE /\ results' = results
                     /\ calls' = calls \o <<"wechat", "fallback">>
                     /\ td_pc' = "multi"
    /\ UNCHANGED <<models_present, wechat_decoder, td_min_confidence, td_image, td_ret>>
    /\ UNCHANGED tdOthers

\* lines 94-100: no WeChat decoder, fallback_decode at once
TdNoWeChat ==
    /\ td_pc = "start"
    /\ ~wechat_decoder
    /\ calls' = Append(calls, "fallback")
    /\ td_pc' = "multi"
    /\ UNCHANGED <<models_present, wechat_decoder, td_min_confidence, td_image,
                   results, td_ret, outs>>
    /\ UNCHANGED tdOthers

\* fallback_decode, lines 135-139 and 146: the multi-detector
TdMulti ==
    /\ td_pc = "multi"
    /\ \E raw \in MultiOutcomes :
         LET m == detect_and_decode_multi(raw)
         IN  /\ outs' = [outs EXCEPT !.multi = m]
             /\ calls' = Append(calls, "multi")
             /\ IF m.ok /\ m.results # <<>>
                THEN /\ results' = results \o m.results
                     /\ td_pc' = "filter"
                ELSE /\ results' = results
                     /\ td_pc' = "single"
    /\ UNCHANGED <<models_present, wechat_decoder, td_min_confidence, td_image, td_ret>>
    /\ UNCHANGED tdOthers

\* a fallback_decode that hands the single-detector's error to its caller
\* (`?` in place of `if let Ok(..)`)
TdSingle_PropagateErr ==
    /\ td_pc = "single"
    /\ \E raw \in SingleOutcomes :
         LET s == detect_and_decode_single(raw)
         IN  /\ outs' = [outs EXCEPT !.single = s]
             /\ calls' = Append(calls, "single")
             /\ results' = IF s.ok THEN results \o s.results ELSE results
             /\ td_pc' = IF s.ok THEN "filter" ELSE "done"
             /\ td_ret' = [ok |-> FALSE, results |-> <<>>]
    /\ UNCHANGED <<models_present, wechat_decoder, td_min_confidence, td_image>>
    /\ UNCHANGED tdOthers

\* fallback_decode, lines 141-143 and 148-150: the single-detector; its Err
\* is dropped by `if let Ok(..)`
TdSingle ==
    /\ td_pc = "single"
    /\ \E raw \in SingleOutcomes :
         LET s == detect_and_decode_single(raw)
         IN  /\ outs' = [outs EXCEPT !.single = s]
             /\ calls' = Append(calls, "single")
             /\ results' = IF s.ok THEN results \o s.results ELSE results
             /\ td_pc' = "filter"
    /\ UNCHANGED <<models_present, wechat_decoder, td_min_confidence, td_image, td_ret>>
    /\ UNCHANGED tdOthers

\* lines 102-127: the confidence filter and the return
TdFilter ==
    /\ td_pc = "filter"
    /\ td_ret' = [ok |-> TRUE, results |-> FilterByConfidence(results, td_min_confidence)]
    /\ td_pc' = "done"
    /\ UNCHANGED <<models_present, wechat_decoder, td_min_confidence, td_image,
                   results, calls, outs>>
    /\ UNCHANGED tdOthers

TdStep == TdTryWeChat \/ TdNoWeChat \/ TdMulti \/ TdSingle \/ TdFilter

\* a caller builds a QRDecoder over the user's configuration and decodes an image
TdCall ==
    /\ td_pc \in {"idle", "done"}
    /\ \E mc \in MinConfidences, img \in Images : QRDecoder_start(mc, img)
    /\ UNCHANGED <<models_present, tdOthers>>

\* the QRDecoder of a caller goes out of scope
TdDrop ==
    /\ td_pc' = "idle"
    /\ wechat_decoder' = FALSE
    /\ td_min_confidence' = 0
    /\ td_image' = [width |-> 0, height |-> 0, channels |-> 0]
    /\ results' = <<>>
    /\ td_ret' = [ok |-> FALSE, results |-> <<>>]
    /\ calls' = <<>>
    /\ outs' = NoOuts

TdIdle ==
    /\ td_pc = "idle"
    /\ wechat_decoder = FALSE
    /\ td_min_confidence = 0
    /\ td_image = [width |-> 0, height |-> 0, channels |-> 0]
    /\ results = <<>>
    /\ td_ret = [ok |-> FALSE, results |-> <<>>]
    /\ calls = <<>>
    /\ outs = NoOuts

EnIdle ==
    /\ en_pc = "idle"
    /\ en_min_confidence = 0
    /\ en_image = [width |-> 0, height |-> 0, channels |-> 0]
    /\ en_i = 0
    /\ en_ret = [ok |-> FALSE, results |-> <<>>]
    /\ en_hit = 0
    /\ en_after_hit = FALSE
    /\ en_swallowed = ""

\* BruteForceConfig::default(), the option lists left out: they are not read
\* (generate_param_combinations has its own)
BruteForceConfig_default == [duplicate_threshold |-> 10, randomize |-> FALSE]

BfIdle ==
    /\ bf_pc = "idle"
    /\ bf_config = BruteForceConfig_default
    /\ bf_image = [width |-> 0, height |-> 0, channels |-> 0]
    /\ bf_order = <<>>
    /\ bf_total = 0
    /\ bf_i = 0
    /\ all_results = <<>>
    /\ bf_hit_results = <<>>
    /\ bf_ret = [ok |-> FALSE, results |-> <<>>]
    /\ bf_hit = 0
    /\ bf_after_hit = FALSE

NoResult ==
    [content |-> "", position |-> [x |-> 0, y |-> 0, width |-> 0, height |-> 0, corners |-> <<>>],
     confidence |-> 0, qr_type |-> ""]

DdIdle ==
    /\ dd_pc = "idle"
    /\ dd_config = BruteForceConfig_default
    /\ dd_new = NoResult
    /\ dd_existing = <<>>
    /\ dd_result = FALSE

PiIdle ==
    /\ pi_pc = "idle"
    /\ pi_config = [preprocess |-> FALSE, brute_force |-> FALSE, min_confidence |-> 0]
    /\ pi_image = [width |-> 0, height |-> 0, channels |-> 0]
    /\ pi_bf_started = FALSE
    /\ pi_final = <<>>
    /\ pi_ret = "none"

NoSymbol == [content |-> "", corners |-> <<>>, straight |-> 0]

EsIdle ==
    /\ es_pc = "idle"
    /\ es_symbol = NoSymbol
    /\ es_image = [width |-> 0, height |-> 0, channels |-> 0]
    /\ es_confidence = [generic |-> 0, wechat |-> 0]
    /\ es_returns = NoOuts

\* BatchStats::new(), the clock left out
BatchStats_new ==
    [total_files |-> 0, processed_files |-> 0, successful_files |-> 0,
     failed_files |-> 0, total_qr_codes |-> 0, total_processing_time |-> 0]

BaIdle ==
    /\ ba_pc = "idle"
    /\ ba_config = [recursive |-> FALSE, randomize |-> FALSE]
    /\ ba_directory = [exists |-> FALSE, is_dir |-> FALSE, readable |-> FALSE, entries |-> <<>>]
    /\ ba_files = <<>>
    /\ ba_i = 0
    /\ ba_stats = BatchStats_new
    /\ ba_results = <<>>
    /\ ba_strategies = <<>>
    /\ ba_ret = [ok |-> FALSE, results |-> <<>>, error |-> ""]
    /\ ba_args = [recursive |-> FALSE, randomize |-> FALSE]
    /\ ba_shuffled = <<>>
    /\ ba_callbacks = <<>>
    /\ ba_main_stats = BatchStats_new

\* nothing has been called yet
NoImage == [width |-> 0, height |-> 0, channels |-> 0]

\* the TransformParams that ask for nothing
NoParams ==
    [contrast |-> 1, brightness |-> 0, blur |-> 0, scale |-> 10, grayscale |-> FALSE,
     binary |-> FALSE]

TrIdle ==
    /\ tr_pc = "idle"
    /\ tr_call = [function |-> "", image |-> NoImage, params |-> NoParams, invert |-> FALSE,
                  kernel_size |-> 0, primitives_ok |-> FALSE]
    /\ tr_ret = [ok |-> FALSE, image |-> NoImage, steps |-> <<>>, ksize |-> 0]

\* no figure computed: each is a fraction num/den
NoFigures ==
    [progress_percentage |-> [num |-> 0, den |-> 1],
     processing_speed |-> [num |-> 0, den |-> 1],
     estimated_remaining_time |-> [num |-> 0, den |-> 1]]

StIdle ==
    /\ st_pc = "idle"
    /\ st_stats = [total_files |-> 0, processed_files |-> 0, elapsed |-> 0]
    /\ st_figures = NoFigures
    /\ st_previous = NoFigures

AllIdle ==
    /\ TdIdle /\ EnIdle /\ BfIdle /\ DdIdle /\ PiIdle /\ EsIdle /\ BaIdle
    /\ TrIdle /\ StIdle

InitTiered == models_present \in BOOLEAN /\ AllIdle

NextTiered == TdCall \/ TdTryWeChat \/ TdNoWeChat \/ TdMulti \/ TdSingle \/ TdFilter

SpecTiered == InitTiered /\ [][NextTiered]_vars

-----------------------------------------------------------------------------
(* Claims about the tiered decoder, checked under SpecTiered. *)

\* a backend answered with a non-empty list of results
Hit(o) == o.invoked /\ o.ok /\ o.results # <<>>
\* a backend answered with an empty list or with an error
Miss(o) == o.invoked /\ ~Hit(o)

\* C1: in QRDecoder.decode_qr_codes an available WeChat backend is invoked
\* first; when it yields a non-empty result set fallback_decode is never
\* invoked for that image, and when it yields an empty set or an error
\* fallback_decode is invoked exactly once.
C1_WeChatFirstThenFallbackOnce ==
    /\ (wechat_decoder /\ calls # <<>> => calls[1] = "wechat")
    /\ (wechat_decoder /\ td_pc = "done" => outs.wechat.invoked)
    /\ (Hit(outs.wechat) =>
            /\ CountOf("fallback", calls) = 0
            /\ ~outs.multi.invoked /\ ~outs.single.invoked)
    /\ (Miss(outs.wechat) => CountOf("fallback", calls) = 1)
    /\ CountOf("wechat", calls) <= 1

\* a decode that ended with the WeChat backend's answer alone
C1_Witness ==
    /\ td_pc = "done"
    /\ Hit(outs.wechat)
    /\ calls = <<"wechat">>
    /\ td_ret.results = outs.wechat.results

\* C2: whenever the WeChat backend detected at least one QR code (its list of
\* results before the confidence filter is non-empty) the generic backend is
\* not invoked, even if every detection is below min_confidence.
C2_NoFallbackAfterWeChatDetection ==
    (outs.wechat.invoked /\ outs.wechat.unfiltered # <<>>) =>
        /\ CountOf("fallback", calls) = 0
        /\ ~outs.multi.invoked /\ ~outs.single.invoked

\* C3: in fallback_decode the single-detector is invoked if and only if the
\* multi-detector returned an empty list or an error; an empty outcome of the
\* single-detector ends the cascade with an empty result and no error, and
\* decode_qr_codes returns Ok whatever the backends did.
C3_SingleIffMultiMissedAndAlwaysOk ==
    /\ (td_pc \in {"filter", "done"} =>
            (outs.single.invoked <=> Miss(outs.multi)))
    /\ (outs.single.invoked => outs.multi.invoked)
    /\ (td_pc \in {"filter", "done"} /\ Miss(outs.single) => results = <<>>)
    /\ (td_pc = "done" => td_ret.ok)
    /\ (td_pc = "done" /\ Miss(outs.single) => td_ret.results = <<>>)

\* every backend was tried and failed or found nothing, and the call is Ok
C3_Witness ==
    /\ td_pc = "done"
    /\ Miss(outs.wechat) /\ ~outs.wechat.ok
    /\ Miss(outs.multi) /\ ~outs.multi.ok
    /\ Miss(outs.single)
    /\ td_ret = [ok |-> TRUE, results |-> <<>>]

-----------------------------------------------------------------------------
(* EnhancedImageProcessor::decode_with_transforms. *)

\* a list that tries a brightened image before the original one
get_transform_sequence_BrightnessFirst ==
    << <<"Brightness", 20, 0>>, <<"Original", 0, 0>>, <<"Brightness", -20, 0>> >>

\* get_transform_sequence: <<kind, first parameter, second parameter>>, the
\* f64 contrast and gamma factors in tenths
get_transform_sequence ==
    << <<"Original", 0, 0>>,
       <<"Brightness", 20, 0>>, <<"Brightness", -20, 0>>,
       <<"Contrast", 12, 0>>, <<"Contrast", 8, 0>>,
       <<"Gamma", 8, 0>>, <<"Gamma", 12, 0>>,
       <<"BrightnessContrast", 15, 13>>, <<"BrightnessContrast", -15, 13>>,
       <<"BrightnessContrast", 25, 7>>, <<"BrightnessContrast", -25, 7>>,
       <<"Brightness", 40, 0>>, <<"Brightness", -40, 0>>,
       <<"Contrast", 15, 0>>, <<"Contrast", 6, 0>>,
       <<"Gamma", 5, 0>>, <<"Gamma", 15, 0>>,
       <<"BilateralFilter", 0, 0>>, <<"MedianBlur", 3, 0>>,
       <<"GaussianBlur", 3, 0>>, <<"MedianBlur", 5, 0>>,
       <<"Sharpen", 0, 0>>,
       <<"MorphOpen", 0, 0>>, <<"MorphClose", 0, 0>>,
       <<"Brightness", 60, 0>>, <<"Brightness", -60, 0>>,
       <<"Contrast", 20, 0>>, <<"Contrast", 4, 0>>,
       <<"Gamma", 3, 0>>, <<"Gamma", 22, 0>>,
       <<"BrightnessContrast", 50, 18>>, <<"BrightnessContrast", -50, 18>>,
       <<"BrightnessContrast", 40, 5>>, <<"BrightnessContrast", -40, 5>>,
       <<"GaussianBlur", 5, 0>>, <<"GaussianBlur", 7, 0>> >>

\* EnhancedImageProcessor::apply_transform: Original is a clone and cannot
\* fail; every other transform fails when one of its primitives does
\* (primitives_ok is the library's answer).  No transform of the list changes
\* the size or the number of channels of the image.
Enhanced_apply_transform(image, transform, primitives_ok) ==
    IF transform[1] = "Original" \/ primitives_ok
    THEN [ok |-> TRUE, image |-> image]
    ELSE [ok |-> FALSE, image |-> image]

\* the entry of decode_with_transforms(image), lines 91-97
decode_with_transforms_start(min_confidence, image) ==
    /\ en_pc' = "loop"
    /\ en_min_confidence' = min_confidence
    /\ en_image' = image
    /\ en_i' = 1
    /\ en_ret' = [ok |-> FALSE, results |-> <<>>]
    /\ en_hit' = 0
    /\ en_after_hit' = FALSE
    /\ en_swallowed' = ""

\* `self.apply_transform(image, *transform)?` in place of the match: a failed
\* transform ends the search with its error
EnApply_PropagateErr ==
    /\ en_pc = "loop"
    /\ en_i <= Len(get_transform_sequence)
    /\ en_after_hit' = (en_after_hit \/ en_hit # 0)
    /\ \E primitives_ok \in BOOLEAN :
         LET t == Enhanced_apply_transform(en_image, get_transform_sequence[en_i], primitives_ok)
         IN  IF t.ok
             THEN /\ QRDecoder_start(en_min_confidence, t.image)
                  /\ en_pc' = "decoding"
                  /\ en_ret' = en_ret
             ELSE /\ en_pc' = "done"
                  /\ en_ret' = [ok |-> FALSE, results |-> <<>>]
                  /\ UNCHANGED tdVars
    /\ en_swallowed' = ""
    /\ UNCHANGED <<en_min_confidence, en_image, en_i, en_hit>>
    /\ UNCHANGED enOthers

\* lines 99-108 and 136-141: the next transform is applied; on success a new
\* QRDecoder is built and asked, on failure the loop goes on
EnApply ==
    /\ en_pc = "loop"
    /\ en_i <= Len(get_transform_sequence)
    /\ en_after_hit' = (en_after_hit \/ en_hit # 0)
    /\ \E primitives_ok \in BOOLEAN :
         LET t == Enhanced_apply_transform(en_image, get_transform_sequence[en_i], primitives_ok)
         IN  IF t.ok
             THEN /\ QRDecoder_start(en_min_confidence, t.image)
                  /\ en_pc' = "decoding"
                  /\ en_i' = en_i
                  /\ en_swallowed' = ""
             ELSE /\ en_i' = en_i + 1
                  /\ en_pc' = "loop"
                  /\ en_swallowed' = "transform"
                  /\ UNCHANGED tdVars
    /\ UNCHANGED <<en_min_confidence, en_image, en_ret, en_hit>>
    /\ UNCHANGED enOthers

\* a search that keeps trying transforms after a non-empty decode and
\* returns what the last successful one found
EnHandle_KeepSearching ==
    /\ en_pc = "decoding"
    /\ td_pc = "done"
    /\ LET found == td_ret.ok /\ td_ret.results # <<>>
       IN  /\ en_hit' = IF en_hit = 0 /\ found THEN en_i ELSE en_hit
           /\ en_ret' = IF found THEN [ok |-> TRUE, results |-> td_ret.results] ELSE en_ret
           /\ IF found /\ en_i = Len(get_transform_sequence)
              THEN en_pc' = "done" /\ en_i' = en_i
              ELSE en_pc' = "loop" /\ en_i' = en_i + 1
    /\ en_swallowed' = IF td_ret.ok THEN "" ELSE "decoder"
    /\ UNCHANGED <<en_min_confidence, en_image, en_after_hit>>
    /\ UNCHANGED tdVars
    /\ UNCHANGED enOthers

\* lines 109-134: the decoder's answer; a non-empty Ok returns at once, an
\* empty Ok or an Err goes to the next transform.  The QRDecoder of the
\* iteration is dropped when the iteration ends.
EnHandle ==
    /\ en_pc = "decoding"
    /\ td_pc = "done"
    /\ LET found == td_ret.ok /\ td_ret.results # <<>>
       IN  /\ en_hit' = IF en_hit = 0 /\ found THEN en_i ELSE en_hit
           /\ IF found
              THEN /\ en_ret' = [ok |-> TRUE, results |-> td_ret.results]
                   /\ en_pc' = "done"
                   /\ en_i' = en_i
                   /\ UNCHANGED tdVars
              ELSE /\ en_ret' = en_ret
                   /\ en_pc' = "loop"
                   /\ en_i' = en_i + 1
                   /\ TdDrop
    /\ en_swallowed' = IF td_ret.ok THEN "" ELSE "decoder"
    /\ UNCHANGED <<en_min_confidence, en_image, en_after_hit>>
    /\ UNCHANGED enOthers

\* lines 144-148: the list is exhausted
EnExhausted ==
    /\ en_pc = "loop"
    /\ en_i > Len(get_transform_sequence)
    /\ en_ret' = [ok |-> TRUE, results |-> <<>>]
    /\ en_pc' = "done"
    /\ en_swallowed' = ""
    /\ UNCHANGED <<en_min_confidence, en_image, en_i, en_hit, en_after_hit>>
    /\ UNCHANGED tdVars
    /\ UNCHANGED enOthers

EnStep == EnApply \/ EnHandle \/ EnExhausted

\* a caller builds an EnhancedImageProcessor over the user's configuration
\* and searches an image
EnCall ==
    /\ en_pc = "idle"
    /\ \E mc \in MinConfidences, img \in Images : decode_with_transforms_start(mc, img)
    /\ UNCHANGED tdVars
    /\ UNCHANGED enOthers

InitEnhanced == models_present \in BOOLEAN /\ AllIdle

NextEnhanced ==
    \/ EnCall \/ EnApply \/ EnHandle \/ EnExhausted
    \/ TdTryWeChat \/ TdNoWeChat \/ TdMulti \/ TdSingle \/ TdFilter

SpecEnhanced == InitEnhanced /\ [][NextEnhanced]_vars

-----------------------------------------------------------------------------
(* Claims about the enhanced search, checked under SpecEnhanced. *)

\* C4: decode_with_transforms returns at the first transform index whose
\* decode is non-empty: no later transform is applied, no decoder call is
\* made after the hit, and what is returned is exactly what that one decode
\* call returned.
C4_ReturnsAtFirstHit ==
    /\ ~en_after_hit
    /\ (en_hit # 0 =>
            /\ en_pc = "done"
            /\ en_i = en_hit
            /\ td_pc = "done"
            /\ en_ret = [ok |-> TRUE, results |-> td_ret.results])
    /\ (en_pc = "done" /\ en_ret.results # <<>> => en_hit # 0)

\* a search that hit at a transform in the middle of the list
C4_Witness ==
    /\ en_pc = "done"
    /\ en_hit > 1 /\ en_hit < Len(get_transform_sequence)
    /\ en_ret.results # <<>>
    /\ en_ret.results = td_ret.results

-----------------------------------------------------------------------------
(* BruteForceDecoder: the parameter grid. *)

\* the option lists of generate_param_combinations (lines 143-146, 149, 153);
\* scale in tenths
contrast_options == <<2, 1, 3>>
brightness_options == <<-75, 75, -50, -25, -10, 0, 25, 50>>
blur_options == <<-7, -3, 7, 3, -1, 5, 9, 11, 13, 15, 17, 19, 21, 23, 25>>
scale_options == <<2, 5, 7, 9, 13, 20>>
grayscale_options == <<TRUE>>
binary_options == <<TRUE, FALSE>>

TransformParams(contrast, brightness, blur, scale, grayscale, binary) ==
    [contrast |-> contrast, brightness |-> brightness, blur |-> blur,
     scale |-> scale, grayscale |-> grayscale, binary |-> binary]

\* The six nested `for` loops of generate_param_combinations, innermost
\* first; each yields, in order, the entries its iterations push.
RECURSIVE Flatten(_)
Flatten(pushed) ==
    IF pushed = <<>> THEN <<>> ELSE Head(pushed) \o Flatten(Tail(pushed))

binary_loop(scale, grayscale, contrast, brightness, blur) ==
    [k \in 1..Len(binary_options) |->
        TransformParams(contrast, brightness, blur, scale, grayscale, binary_options[k])]

blur_loop(scale, grayscale, contrast, brightness) ==
    Flatten([k \in 1..Len(blur_options) |->
        binary_loop(scale, grayscale, contrast, brightness, blur_options[k])])

brightness_loop(scale, grayscale, contrast) ==
    Flatten([k \in 1..Len(brightness_options) |->
        blur_loop(scale, grayscale, contrast, brightness_options[k])])

contrast_loop(scale, grayscale) ==
    Flatten([k \in 1..Len(contrast_options) |->
        brightness_loop(scale, grayscale, contrast_options[k])])

grayscale_loop(scale) ==
    Flatten([k \in 1..Len(grayscale_options) |->
        contrast_loop(scale, grayscale_options[k])])

scale_loop ==
    Flatten([k \in 1..Len(scale_options) |-> grayscale_loop(scale_options[k])])

\* a generator whose innermost loop forgot the unbinarized variant
generate_param_combinations_BinaryOnly ==
    SelectSeq(scale_loop, LAMBDA c : c.binary)

generate_param_combinations == scale_loop

\* combinations.shuffle(&mut rng) is a Fisher-Yates shuffle: for i from the
\* last position down to the second, position i is exchanged with a random
\* position j <= i.  The model lets at most MaxSwaps of these exchanges be
\* proper ones (j < i), at positions taken from the two ends of the list.
ShufflePositions(n) == {1, 2, n}

RECURSIVE SwapSeqs(_, _, _)
\* the runs of at most m proper exchanges <<i, j>> with i descending below top
SwapSeqs(n, top, m) ==
    IF m = 0 THEN {<<>>}
    ELSE {<<>>} \cup
         UNION { { <<<<i, j>>>> \o rest : rest \in SwapSeqs(n, i, m - 1) } :
                 <<i, j>> \in { q \in ShufflePositions(n) \X ShufflePositions(n) :
                                  q[2] < q[1] /\ q[1] < top } }

Shuffles(n) == SwapSeqs(n, n + 1, MaxSwaps)

RECURSIVE IndexAt(_, _)
\* the position, before the exchanges of order, of the entry that stands at
\* position k after them
IndexAt(k, order) ==
    IF order = <<>> THEN k
    ELSE LET last == order[Len(order)]
             before == IF k = last[1] THEN last[2]
                       ELSE IF k = last[2] THEN last[1] ELSE k
         IN  IndexAt(before, SubSeq(order, 1, Len(order) - 1))

\* combinations[k - 1] of detect_and_decode, after the optional shuffle
Combination(k) == generate_param_combinations[IndexAt(k, bf_order)]

-----------------------------------------------------------------------------
(* BruteForceDecoder::apply_transform. *)

Abs(n) == IF n < 0 THEN -n ELSE n

\* (value as f64 * scale) as i32, scale in tenths
Scaled(value, scale) == (value * scale) \div 10

\* One step of apply_transform: when the steps so far succeeded and the step
\* is enabled, the primitive runs (its name is recorded); it fails when the
\* library rejects its input (accepted is false) or fails by itself.
TransformStep(state, enabled, name, accepted, primitives_ok, image) ==
    IF ~state.ok \/ ~enabled THEN state
    ELSE IF accepted /\ primitives_ok
         THEN [ok |-> TRUE, image |-> image, steps |-> Append(state.steps, name)]
         ELSE [ok |-> FALSE, image |-> state.image, steps |-> Append(state.steps, name)]

\* lines 199-209: the kernel size handed to GaussianBlur, 0 when the blur
\* step invokes nothing
Brute_blur_ksize(params) ==
    IF params.blur # 0 /\ Abs(params.blur) > 1 THEN Abs(params.blur) ELSE 0

\* an apply_transform that binarizes before it converts to grayscale
Brute_apply_transform_BinarizeFirst(image, params, invert, primitives_ok) ==
    LET s0 == [ok |-> TRUE, image |-> image, steps |-> <<>>]
        resized == [image EXCEPT !.width = Scaled(image.width, params.scale),
                                 !.height = Scaled(image.height, params.scale)]
        s1 == TransformStep(s0, params.scale # 10, "resize",
                            resized.width > 0 /\ resized.height > 0,
                            primitives_ok, resized)
        s2 == TransformStep(s1, TRUE, "convert_to", TRUE, primitives_ok, s1.image)
        s3 == TransformStep(s2, Brute_blur_ksize(params) # 0, "gaussian_blur",
                            Brute_blur_ksize(params) % 2 = 1, primitives_ok, s2.image)
        s4 == TransformStep(s3, params.binary, "threshold",
                            s3.image.channels = 1, primitives_ok, s3.image)
        s5 == TransformStep(s4, params.grayscale, "cvt_color",
                            s4.image.channels \in {3, 4}, primitives_ok,
                            [s4.image EXCEPT !.channels = 1])
        s6 == TransformStep(s5, invert, "bitwise_not", TRUE, primitives_ok, s5.image)
    IN  s6

\* apply_transform(image, params, invert).  resize rejects an empty target
\* size, GaussianBlur an even kernel, cvtColor(BGR2GRAY) an image that has
\* not 3 or 4 channels, threshold(OTSU) one that has more than 1.
Brute_apply_transform(image, params, invert, primitives_ok) ==
    LET s0 == [ok |-> TRUE, image |-> image, steps |-> <<>>]
        resized == [image EXCEPT !.width = Scaled(image.width, params.scale),
                                 !.height = Scaled(image.height, params.scale)]
        s1 == TransformStep(s0, params.scale # 10, "resize",
                            resized.width > 0 /\ resized.height > 0,
                            primitives_ok, resized)
        s2 == TransformStep(s1, TRUE, "convert_to", TRUE, primitives_ok, s1.image)
        s3 == TransformStep(s2, Brute_blur_ksize(params) # 0, "gaussian_blur",
                            Brute_blur_ksize(params) % 2 = 1, primitives_ok, s2.image)
        s4 == TransformStep(s3, params.grayscale, "cvt_color",
                            s3.image.channels \in {3, 4}, primitives_ok,
                            [s3.image EXCEPT !.channels = 1])
        s5 == TransformStep(s4, params.binary, "threshold",
                            s4.image.channels = 1, primitives_ok, s4.image)
        s6 == TransformStep(s5, invert, "bitwise_not", TRUE, primitives_ok, s5.image)
    IN  s6

-----------------------------------------------------------------------------
(* BruteForceDecoder::is_duplicate. *)

DISTANCE_THRESHOLD == 50

\* floor of the f64 square root of the non-negative whole number dx*dx+dy*dy;
\* it is at most |dx| + |dy|
SqrtFloor(dx, dy) ==
    CHOOSE n \in 0..(Abs(dx) + Abs(dy)) :
        n * n <= dx * dx + dy * dy /\ dx * dx + dy * dy < (n + 1) * (n + 1)

\* `distance < DISTANCE_THRESHOLD` for distance = (dx*dx + dy*dy).sqrt(): the
\* threshold being a whole number, the square root is below it exactly when
\* its floor is
DistanceBelow(dx, dy, threshold) == SqrtFloor(dx, dy) < threshold

\* an is_duplicate that reads the configured duplicate_threshold
is_duplicate_Configured(self_config, new_result, existing_results) ==
    \E k \in 1..Len(existing_results) :
        DistanceBelow(new_result.position.x - existing_results[k].position.x,
                      new_result.position.y - existing_results[k].position.y,
                      self_config.duplicate_threshold)

RECURSIVE is_duplicate(_, _, _)
\* the loop over existing_results with its early `return true`
is_duplicate(self_config, new_result, existing_results) ==
    IF existing_results = <<>> THEN FALSE
    ELSE LET existing == Head(existing_results)
             dx == new_result.position.x - existing.position.x
             dy == new_result.position.y - existing.position.y
         IN  IF DistanceBelow(dx, dy, DISTANCE_THRESHOLD) THEN TRUE
             ELSE is_duplicate(self_config, new_result, Tail(existing_results))

\* a merge that keeps every result
push_all(self_config, rs, acc) == acc \o rs

RECURSIVE push_unless_duplicate(_, _, _)
\* lines 269-273: `for result in results { if !is_duplicate(..) { push } }`
push_unless_duplicate(self_config, rs, acc) ==
    IF rs = <<>> THEN acc
    ELSE push_unless_duplicate(self_config, Tail(rs),
             IF is_duplicate(self_config, Head(rs), acc) THEN acc
             ELSE Append(acc, Head(rs)))

-----------------------------------------------------------------------------
(* BruteForceDecoder::detect_and_decode, one action per iteration. *)

\* ProcessingConfig::default().min_confidence, which BruteForceDecoder::new
\* hands to its WeChatQRDecoder
ProcessingConfig_default_min_confidence == 0

\* BruteForceDecoder::new succeeds exactly when WeChatQRDecoder::new does
BruteForceDecoder_new == WeChatQRDecoder_new

\* a detect_and_decode that shuffles whatever the configuration says
shuffle_always(self_config, n) == Shuffles(n)

\* lines 247-251: the exchanges made on `combinations`, none unless
\* self.config.randomize
shuffle_if_randomize(self_config, n) ==
    IF self_config.randomize THEN Shuffles(n) ELSE {<<>>}

\* the entry of detect_and_decode(image), lines 243-253, on a decoder whose
\* configuration is self_config
detect_and_decode_start(self_config, image) ==
    /\ bf_config' = self_config
    /\ bf_image' = image
    /\ all_results' = <<>>
    /\ bf_total' = Len(generate_param_combinations)
    /\ bf_order' \in shuffle_if_randomize(self_config, Len(generate_param_combinations))
    /\ bf_i' = 1
    /\ bf_hit_results' = <<>>
    /\ bf_ret' = [ok |-> FALSE, results |-> <<>>]
    /\ bf_hit' = 0
    /\ bf_after_hit' = FALSE
    /\ bf_pc' = "loop"

\* a search that goes on after a hit and returns what it gathered at the end
BfAttempt_Accumulate ==
    /\ bf_pc = "loop"
    /\ bf_i <= bf_total
    /\ bf_after_hit' = (bf_after_hit \/ bf_hit # 0)
    /\ \E primitives_ok \in BOOLEAN :
       \E t \in {Brute_apply_transform(bf_image, Combination(bf_i), FALSE, primitives_ok)} :
         IF ~t.ok
         THEN /\ bf_pc' = "transform_err"
              /\ UNCHANGED <<all_results, bf_hit_results, bf_ret, bf_hit, bf_i>>
         ELSE \E raw \in WeChatOutcomes :
              \E d \in {WeChat_decode_qr_codes(
                             raw, ProcessingConfig_default_min_confidence, t.image)} :
                /\ bf_hit_results' = IF bf_hit = 0 /\ d.ok /\ d.results # <<>>
                                      THEN d.results ELSE bf_hit_results
                /\ bf_hit' = IF bf_hit = 0 /\ d.ok /\ d.results # <<>> THEN bf_i ELSE bf_hit
                /\ all_results' = IF d.ok /\ d.results # <<>>
                                   THEN push_unless_duplicate(bf_config, d.results, all_results)
                                   ELSE all_results
                /\ IF d.ok
                   THEN bf_i' = bf_i + 1 /\ bf_pc' = bf_pc
                   ELSE bf_i' = bf_i /\ bf_pc' = "decode_err"
                /\ UNCHANGED bf_ret
    /\ UNCHANGED <<bf_config, bf_image, bf_order, bf_total>>
    /\ UNCHANGED bfOthers

\* lines 255-287: one combination is applied and, when that succeeded,
\* decoded; a non-empty answer is merged into all_results and returned at
\* once, an empty answer goes to the next one, a failed transform or an Err
\* to the arm that ignores it
BfAttempt ==
    /\ bf_pc = "loop"
    /\ bf_i <= bf_total
    /\ bf_after_hit' = (bf_after_hit \/ bf_hit # 0)
    /\ \E primitives_ok \in BOOLEAN :
       \E t \in {Brute_apply_transform(bf_image, Combination(bf_i), FALSE, primitives_ok)} :
         IF ~t.ok
         THEN /\ bf_pc' = "transform_err"
              /\ UNCHANGED <<all_results, bf_hit_results, bf_ret, bf_hit, bf_i>>
         ELSE \E raw \in WeChatOutcomes :
              \E d \in {WeChat_decode_qr_codes(
                             raw, ProcessingConfig_default_min_confidence, t.image)} :
                /\ bf_hit_results' = IF bf_hit = 0 /\ d.ok /\ d.results # <<>>
                                      THEN d.results ELSE bf_hit_results
                /\ bf_hit' = IF bf_hit = 0 /\ d.ok /\ d.results # <<>> THEN bf_i ELSE bf_hit
                /\ all_results' = IF d.ok /\ d.results # <<>>
                                   THEN push_unless_duplicate(bf_config, d.results, all_results)
                                   ELSE all_results
                /\ IF d.ok /\ d.results # <<>> /\ all_results' # <<>>
                   THEN /\ bf_ret' = [ok |-> TRUE, results |-> all_results']
                        /\ bf_pc' = "done"
                        /\ bf_i' = bf_i
                   ELSE IF d.ok
                   THEN /\ bf_i' = bf_i + 1
                        /\ UNCHANGED <<bf_ret, bf_pc>>
                   ELSE /\ bf_pc' = "decode_err"
                        /\ UNCHANGED <<bf_ret, bf_i>>
    /\ UNCHANGED <<bf_config, bf_image, bf_order, bf_total>>
    /\ UNCHANGED bfOthers

\* the arms `Err(_) => {}` altered to `Err(e) => return Err(e)`
BfIgnoreError_Propagate ==
    /\ bf_pc \in {"transform_err", "decode_err"}
    /\ bf_pc' = "done"
    /\ bf_ret' = [ok |-> FALSE, results |-> <<>>]
    /\ UNCHANGED <<bf_config, bf_image, bf_order, bf_total, bf_i, all_results,
                   bf_hit_results, bf_hit, bf_after_hit>>
    /\ UNCHANGED bfOthers

\* lines 284 and 287: `Err(_) => {}`, the error of the transform or of the
\* decoder is dropped and the loop goes to the next combination
BfIgnoreError ==
    /\ bf_pc \in {"transform_err", "decode_err"}
    /\ bf_pc' = "loop"
    /\ bf_i' = bf_i + 1
    /\ UNCHANGED <<bf_config, bf_image, bf_order, bf_total, all_results,
                   bf_hit_results, bf_ret, bf_hit, bf_after_hit>>
    /\ UNCHANGED bfOthers

\* lines 289-294: the grid is exhausted
BfExhausted ==
    /\ bf_pc = "loop"
    /\ bf_i > bf_total
    /\ bf_ret' = [ok |-> TRUE, results |-> all_results]
    /\ bf_pc' = "done"
    /\ UNCHANGED <<bf_config, bf_image, bf_order, bf_total, bf_i, all_results,
                   bf_hit_results, bf_hit, bf_after_hit>>
    /\ UNCHANGED bfOthers

BfStep == BfAttempt \/ BfIgnoreError \/ BfExhausted

\* imread(path, IMREAD_COLOR) of the input file: a 3-channel Mat, the larger
\* of Images
ColorImages == {img \in Images : img.channels = 3 /\ img.width = 640}
\* what ImageProcessor::preprocess_image makes of them: a single channel
GrayImages == {[img EXCEPT !.channels = 1] : img \in ColorImages}

\* decode_with_brute_force(file_path, expected_count, randomize), lines 80-101:
\* sets self.config.randomize, loads the file and searches it
BfCallFromFile ==
    /\ bf_pc = "idle"
    /\ BruteForceDecoder_new
    /\ \E randomize \in BOOLEAN, img \in ColorImages :
         detect_and_decode_start([bf_config EXCEPT !.randomize = randomize], img)
    /\ UNCHANGED bfOthers

\* detect_and_decode(image) on a freshly built decoder, as process_image
\* calls it, on the loaded or on the preprocessed image
BfCallDirect ==
    /\ bf_pc = "idle"
    /\ BruteForceDecoder_new
    /\ \E img \in ColorImages \cup GrayImages :
         detect_and_decode_start(BruteForceConfig_default, img)
    /\ UNCHANGED bfOthers

InitBrute == models_present \in BOOLEAN /\ AllIdle

NextBrute == BfCallFromFile \/ BfCallDirect \/ BfAttempt \/ BfIgnoreError \/ BfExhausted

SpecBrute == InitBrute /\ [][NextBrute]_vars

-----------------------------------------------------------------------------
(* Claims about the brute-force search, under SpecBrute. *)

Elements(seq) == {seq[k] : k \in 1..Len(seq)}

\* C6: detect_and_decode returns at the first combination, in iteration
\* order, whose decode call yields a non-empty list: no combination is
\* attempted after it, the search is over as soon as there was a hit, the
\* call returns Ok at that very combination, and every result returned is
\* one the decode call of that combination produced.
C6_ReturnsAtFirstNonEmpty ==
    /\ ~bf_after_hit
    /\ (bf_pc = "loop" => bf_hit = 0)
    /\ (bf_pc = "done" /\ bf_hit # 0 =>
            /\ bf_i = bf_hit
            /\ bf_ret.ok
            /\ bf_ret.results # <<>>
            /\ Elements(bf_ret.results) \subseteq Elements(bf_hit_results))
    /\ (bf_pc = "done" /\ bf_hit = 0 =>
            bf_i = bf_total + 1 /\ bf_ret.ok /\ bf_ret.results = <<>>)

\* a hit after earlier combinations missed and with later ones left untried
C6_Witness ==
    /\ bf_pc = "done"
    /\ bf_hit > 1
    /\ bf_hit < bf_total
    /\ bf_i = bf_hit
    /\ bf_ret.results # <<>>

\* the Cartesian product of the option lists
ParamProduct ==
    {TransformParams(contrast, brightness, blur, scale, grayscale, binary) :
        contrast \in Elements(contrast_options), brightness \in Elements(brightness_options),
        blur \in Elements(blur_options), scale \in Elements(scale_options),
        grayscale \in Elements(grayscale_options), binary \in Elements(binary_options)}

\* the generated list holds each tuple of the product, and holds it once
GridIsProductOnce ==
    /\ Elements(generate_param_combinations) = ParamProduct
    /\ Cardinality(Elements(generate_param_combinations)) = Len(generate_param_combinations)
    /\ Cardinality(ParamProduct) = 6 * 3 * 8 * 15 * 2

\* C7: generate_param_combinations produces exactly 6 x 3 x 8 x 15 x 2 = 4320
\* combinations, each tuple (scale, contrast, brightness, blur, binary) of the
\* Cartesian product of the option lists exactly once; it is the list
\* every started search iterates.
C7_GridIs4320ProductOnce ==
    bf_pc # "idle" =>
        /\ bf_total = 4320
        /\ bf_total = Len(generate_param_combinations)
        /\ GridIsProductOnce

\* a search that went through the whole grid without a hit
C7_Witness ==
    /\ bf_pc = "done"
    /\ bf_hit = 0
    /\ bf_i = 4321
    /\ bf_ret.results = <<>>

\* the entry of the product that the nesting scale > grayscale > contrast >
\* brightness > blur > binary puts at position k
NestedAt(k) ==
    LET n == k - 1
        nb == Len(binary_options)
        nl == Len(blur_options)
        nr == Len(brightness_options)
        nc == Len(contrast_options)
        ng == Len(grayscale_options)
    IN  TransformParams(contrast_options[((n \div (nb * nl * nr)) % nc) + 1],
                        brightness_options[((n \div (nb * nl)) % nr) + 1],
                        blur_options[((n \div nb) % nl) + 1],
                        scale_options[(n \div (nb * nl * nr * nc * ng)) + 1],
                        grayscale_options[((n \div (nb * nl * nr * nc)) % ng) + 1],
                        binary_options[(n % nb) + 1])

\* the generation order: scale outermost, binary innermost
GenerationOrderIsNested ==
    \A k \in 1..Len(generate_param_combinations) :
        generate_param_combinations[k] = NestedAt(k)

\* C8: on entry to the loop the sequence of combinations is a permutation of
\* the unshuffled grid (every entry of the grid at exactly one position, so
\* the same set and multiset), shuffled or not; when randomize is not set it
\* is the generation order itself, scale outermost and binary innermost.
C8_ShuffleIsPermutation ==
    bf_pc = "loop" /\ bf_i = 1 =>
        /\ {IndexAt(k, bf_order) : k \in 1..bf_total} = 1..bf_total
        /\ bf_total = Len(generate_param_combinations)
        /\ (~bf_config.randomize =>
                /\ \A k \in 1..bf_total : IndexAt(k, bf_order) = k
                /\ GenerationOrderIsNested)

\* a randomized search whose first combination is not the first generated
C8_Witness ==
    /\ bf_pc = "loop"
    /\ bf_i = 1
    /\ bf_config.randomize
    /\ Combination(1) # generate_param_combinations[1]

\* the squared distance of the bounding-box origins of two results
OriginDistance2(a, b) ==
    (a.position.x - b.position.x) * (a.position.x - b.position.x)
    + (a.position.y - b.position.y) * (a.position.y - b.position.y)

-----------------------------------------------------------------------------
(* BruteForceDecoder::is_duplicate as a function of its arguments. *)

\* the largest existing_results handed to is_duplicate
MaxExisting == 2

\* bounding-box origins: the two pairs of the documentation, and origins 40,
\* just under 50 and exactly 50 away from (100, 100)
Origins == {<<100, 100>>, <<105, 103>>, <<300, 300>>, <<100, 60>>, <<129, 140>>, <<130, 140>>}

\* a result whose bounding box has origin o
ResultAt(o) ==
    QRCodeResult("QR", calculate_position_from_corners(Box(o[1], o[2], 40, 40)).position,
                 100, "WeChat")

\* duplicate_threshold as Default sets it, and another value
DuplicateThresholds == {BruteForceConfig_default.duplicate_threshold, 100}

DdCall ==
    /\ dd_pc = "idle"
    /\ \E threshold \in DuplicateThresholds, o \in Origins,
          existing \in SeqsUpTo(Origins, MaxExisting) :
         /\ dd_config' = [BruteForceConfig_default EXCEPT !.duplicate_threshold = threshold]
         /\ dd_new' = ResultAt(o)
         /\ dd_existing' = [k \in 1..Len(existing) |-> ResultAt(existing[k])]
         /\ dd_result' = is_duplicate(dd_config', dd_new', dd_existing')
    /\ dd_pc' = "done"
    /\ UNCHANGED ddOthers

\* the answer is consumed
DdReturn ==
    /\ dd_pc = "done"
    /\ dd_pc' = "idle"
    /\ dd_config' = BruteForceConfig_default
    /\ dd_new' = NoResult
    /\ dd_existing' = <<>>
    /\ dd_result' = FALSE
    /\ UNCHANGED ddOthers

InitDedup == models_present \in BOOLEAN /\ AllIdle

NextDedup == DdCall \/ DdReturn

SpecDedup == InitDedup /\ [][NextDedup]_vars

Origin(r) == <<r.position.x, r.position.y>>

-----------------------------------------------------------------------------
(* process_image of main.rs: the single-file pipeline. *)

\* the fields of ProcessingConfig the pipeline branches on
PiConfigs == [preprocess : BOOLEAN, brute_force : BOOLEAN, min_confidence : {0, 96}]

\* what ImageProcessor::load_image returns for the input file
PiImages == ColorImages

\* ImageProcessor::preprocess_image with ImageProcessingParams::default():
\* no resize, grayscale conversion unless already single-channel, Gaussian
\* blur, histogram equalization; Err when a primitive fails
preprocess_image(image, primitives_ok) ==
    IF primitives_ok
    THEN [ok |-> TRUE, image |-> [image EXCEPT !.channels = 1]]
    ELSE [ok |-> FALSE, image |-> image]

\* lines 116-171: the input is checked, loaded, preprocessed when
\* config.preprocess, saved when asked to (io_ok: the file system let all of
\* that succeed), and the enhanced search is started on the outcome
PiStart ==
    /\ pi_pc = "idle"
    /\ \E config \in PiConfigs, img \in PiImages, io_ok \in BOOLEAN, primitives_ok \in BOOLEAN :
       \E pre \in {preprocess_image(img, primitives_ok)} :
         /\ pi_config' = config
         /\ IF ~io_ok \/ (config.preprocess /\ ~pre.ok)
            THEN /\ pi_pc' = "done"
                 /\ pi_ret' = "err_io"
                 /\ UNCHANGED <<pi_image, enVars>>
            ELSE /\ pi_image' = IF config.preprocess THEN pre.image ELSE img
                 /\ decode_with_transforms_start(config.min_confidence, pi_image')
                 /\ pi_pc' = "enhanced"
                 /\ pi_ret' = "none"
    /\ UNCHANGED <<models_present, tdVars, bfVars, ddVars, esVars, baVars, trVars, stVars, pi_bf_started, pi_final>>

\* a process_image that returns Ok(()) whatever the list holds
PiFinish_AlwaysOk(final_results) ==
    /\ pi_final' = final_results
    /\ pi_pc' = "done"
    /\ \E io_ok \in BOOLEAN :
         pi_ret' = IF ~io_ok THEN "err_io" ELSE "ok"

\* lines 187-207 on final_results: reported (an Err when the report could
\* not be written), then Err("no QR code found") when the list is empty, Ok
\* otherwise
PiFinish(final_results) ==
    /\ pi_final' = final_results
    /\ pi_pc' = "done"
    /\ \E io_ok \in BOOLEAN :
         pi_ret' = IF ~io_ok THEN "err_io"
                   ELSE IF final_results = <<>> THEN "err_no_qr"
                   ELSE "ok"

\* a pipeline that starts the brute-force search whenever it is enabled
PiAfterEnhanced_BruteWheneverEnabled ==
    /\ pi_pc = "enhanced"
    /\ en_pc = "done"
    /\ IF ~en_ret.ok
       THEN /\ pi_pc' = "done"
            /\ pi_ret' = "err_search"
            /\ UNCHANGED <<bfVars, pi_bf_started, pi_final>>
       ELSE IF pi_config.brute_force
       THEN /\ pi_bf_started' = TRUE
            /\ IF BruteForceDecoder_new
               THEN /\ detect_and_decode_start(BruteForceConfig_default, pi_image)
                    /\ pi_pc' = "brute"
                    /\ UNCHANGED <<pi_final, pi_ret>>
               ELSE /\ pi_pc' = "done"
                    /\ pi_ret' = "err_construct"
                    /\ UNCHANGED <<bfVars, pi_final>>
       ELSE /\ PiFinish(en_ret.results)
            /\ UNCHANGED <<bfVars, pi_bf_started>>
    /\ UNCHANGED <<models_present, tdVars, enVars, ddVars, esVars, baVars, trVars, stVars, pi_config, pi_image>>

\* lines 171-207 from the return of decode_with_transforms: when it found
\* nothing and config.brute_force, a BruteForceDecoder is built (an Err of
\* which ends process_image) and searches the same image; otherwise the
\* enhanced results are the final ones
PiAfterEnhanced ==
    /\ pi_pc = "enhanced"
    /\ en_pc = "done"
    /\ IF ~en_ret.ok
       THEN /\ pi_pc' = "done"
            /\ pi_ret' = "err_search"
            /\ UNCHANGED <<bfVars, pi_bf_started, pi_final>>
       ELSE IF en_ret.results = <<>> /\ pi_config.brute_force
       THEN /\ pi_bf_started' = TRUE
            /\ IF BruteForceDecoder_new
               THEN /\ detect_and_decode_start(BruteForceConfig_default, pi_image)
                    /\ pi_pc' = "brute"
                    /\ UNCHANGED <<pi_final, pi_ret>>
               ELSE /\ pi_pc' = "done"
                    /\ pi_ret' = "err_construct"
                    /\ UNCHANGED <<bfVars, pi_final>>
       ELSE /\ PiFinish(en_ret.results)
            /\ UNCHANGED <<bfVars, pi_bf_started>>
    /\ UNCHANGED <<models_present, tdVars, enVars, ddVars, esVars, baVars, trVars, stVars, pi_config, pi_image>>

\* lines 178-207 from the return of detect_and_decode: its results are the
\* final ones
PiAfterBrute ==
    /\ pi_pc = "brute"
    /\ bf_pc = "done"
    /\ IF ~bf_ret.ok
       THEN /\ pi_pc' = "done"
            /\ pi_ret' = "err_search"
            /\ UNCHANGED pi_final
       ELSE PiFinish(bf_ret.results)
    /\ UNCHANGED <<models_present, tdVars, enVars, bfVars, ddVars, esVars, baVars, trVars, stVars, pi_config, pi_image,
                   pi_bf_started>>

InitPipeline == models_present \in BOOLEAN /\ AllIdle

NextPipeline ==
    \/ PiStart \/ PiAfterEnhanced \/ PiAfterBrute
    \/ EnApply \/ EnHandle \/ EnExhausted
    \/ TdTryWeChat \/ TdNoWeChat \/ TdMulti \/ TdSingle \/ TdFilter
    \/ BfAttempt \/ BfIgnoreError \/ BfExhausted

SpecPipeline == InitPipeline /\ [][NextPipeline]_vars

-----------------------------------------------------------------------------
(* The confidence estimators and the decode loops on one reported symbol. *)

\* corner points a backend may report for a symbol: none, three, the four
\* of boxes of area 64, 100, 121, 1000 and 1600, and five points
EsCorners ==
    { <<>>,
      << <<5, 5>>, <<9, 5>>, <<9, 9>> >>,
      Box(100, 100, 8, 8), Box(100, 100, 10, 10), Box(100, 100, 11, 11),
      Box(100, 100, 25, 40), Box(130, 120, 40, 40),
      Box(130, 120, 40, 40) \o << <<150, 180>> >> }

\* sides of the rectified image: an empty Mat, 20, 21 and 33 pixels
EsStraights == {0, 20, 21, 33}

\* images on both sides of the 200x200 limit of the WeChat estimator
EsImages ==
    Images \cup { [width |-> 200, height |-> 200, channels |-> 3],
                  [width |-> 201, height |-> 201, channels |-> 3] }

\* a backend reports one symbol; both estimators are applied to it, and
\* each of the three detect-and-decode functions turns it into its answer
EsCall ==
    /\ es_pc = "idle"
    /\ \E content \in {"A", ""}, corners \in EsCorners, straight \in EsStraights,
          image \in EsImages :
         LET symbol == [content |-> content, corners |-> corners, straight |-> straight]
         IN  /\ es_symbol' = symbol
             /\ es_image' = image
             /\ es_confidence' =
                    [generic |-> calculate_confidence_from_corners(corners, straight),
                     wechat |-> WeChat_calculate_confidence(corners, image)]
             /\ es_returns' =
                    [wechat |-> Answer3(WeChat_decode_qr_codes(
                                   [err |-> FALSE, infos |-> <<symbol>>],
                                   ProcessingConfig_default_min_confidence, image)),
                     multi |-> detect_and_decode_multi([err |-> FALSE, infos |-> <<symbol>>]),
                     single |-> detect_and_decode_single(
                                   [err |-> FALSE, utf8 |-> TRUE, info |-> symbol])]
    /\ es_pc' = "done"
    /\ UNCHANGED esOthers

\* the answers are consumed
EsReturn ==
    /\ es_pc = "done"
    /\ es_pc' = "idle"
    /\ es_symbol' = NoSymbol
    /\ es_image' = [width |-> 0, height |-> 0, channels |-> 0]
    /\ es_confidence' = [generic |-> 0, wechat |-> 0]
    /\ es_returns' = NoOuts
    /\ UNCHANGED esOthers

InitEstimators == models_present \in BOOLEAN /\ AllIdle

NextEstimators == EsCall \/ EsReturn

SpecEstimators == InitEstimators /\ [][NextEstimators]_vars

\* the results of the three answers for the symbol
EsResults ==
    Elements(es_returns.wechat.results) \cup Elements(es_returns.multi.results)
        \cup Elements(es_returns.single.results)

\* C11: every confidence either estimator computes lies within [0, 1] (0 to
\* 100 hundredths), whatever the corner count, the rectified-image size, the
\* bounding-box area and the image size, all increments applying included;
\* so does the confidence of every result built from it.
C11_ConfidenceWithinUnitInterval ==
    es_pc = "done" =>
        /\ es_confidence.generic >= 0 /\ es_confidence.generic <= 100
        /\ es_confidence.wechat >= 0 /\ es_confidence.wechat <= 100
        /\ \A r \in EsResults : r.confidence >= 0 /\ r.confidence <= 100

\* every increment of both estimators applies: four corners, area above
\* 1000, a rectified image above 20x20, an image above 200x200
C11_Witness ==
    /\ es_pc = "done"
    /\ Len(es_symbol.corners) >= 4
    /\ calculate_area_from_corners(es_symbol.corners) > 1000
    /\ es_symbol.straight > 20
    /\ es_image.width > 200 /\ es_image.height > 200
    /\ es_confidence = [generic |-> 100, wechat |-> 100]

-----------------------------------------------------------------------------
(* Claims about what the decoders admit, under SpecPipeline. *)

\* every result held or returned by decode_qr_codes of both decoders, by
\* decode_with_transforms, by detect_and_decode and by process_image
AdmittedResults ==
    Elements(outs.wechat.results) \cup Elements(results) \cup Elements(td_ret.results)
        \cup Elements(en_ret.results)
        \cup Elements(bf_hit_results) \cup Elements(all_results) \cup Elements(bf_ret.results)
        \cup Elements(pi_final)

\* C12: no result with empty content is admitted into a list returned by
\* QRDecoder::decode_qr_codes, WeChatQRDecoder::decode_qr_codes,
\* decode_with_transforms or detect_and_decode, whatever the backends report,
\* symbols with an empty string included.
C12_NoEmptyContent ==
    \A r \in AdmittedResults : r.content # ""

\* the WeChat backend reported two symbols, one of them with an empty
\* string, nothing was filtered, and the decoder returned the other one
C12_Witness ==
    /\ td_pc = "done"
    /\ td_min_confidence = 0
    /\ outs.wechat.ok
    /\ outs.wechat.detected = 2
    /\ Len(outs.wechat.results) = 1
    /\ td_ret.results = outs.wechat.results

\* C13: every result of the three detect-and-decode functions carries
\* exactly 4 corners, whatever number of corner points the backend reported
\* for the symbol.
C13_CornersExactlyFour ==
    es_pc = "done" =>
        \A r \in EsResults : Len(r.position.corners) = 4

\* C14: every result of the final list process_image hands to the output
\* formatter has a confidence of at least the user's min_confidence, whether
\* the enhanced or the brute-force search found it.
C14_FinalMeetsMinConfidence ==
    pi_pc = "done" =>
        \A r \in Elements(pi_final) : r.confidence >= pi_config.min_confidence

-----------------------------------------------------------------------------
(* BatchProcessor: collecting the files of a directory. *)

\* the largest number of entries of the batch directory
MaxEntries == 3

\* Args::supported_formats(), which main's process_batch puts into
\* BatchConfig.supported_formats
supported_formats == <<"jpg", "jpeg", "png", "bmp", "tiff", "tif", "webp">>

\* a regular file and its Path::extension(), "" when it has none
File(path, extension) ==
    [kind |-> "file", path |-> path, extension |-> extension, entries |-> <<>>,
     readable |-> TRUE]

\* a subdirectory; read_dir or one of its entries fails when not readable
Dir(path, readable, entries) ==
    [kind |-> "dir", path |-> path, extension |-> "", entries |-> entries,
     readable |-> readable]

\* what a directory may hold: files with a supported extension (in either
\* case), with an unsupported one and with none, an entry that is neither a
\* file nor a directory, a subdirectory with one supported and one
\* unsupported file, and a subdirectory that cannot be read
DirEntries ==
    { File("a.png", "png"), File("b.JPG", "JPG"), File("c.txt", "txt"), File("d", ""),
      [kind |-> "other", path |-> "socket", extension |-> "", entries |-> <<>>,
       readable |-> TRUE],
      Dir("sub", TRUE, << File("sub/g.bmp", "bmp"), File("sub/h.gif", "gif") >>),
      Dir("locked", FALSE, <<>>) }

\* the listings read_dir may give: entries of DirEntries, none twice
Listings ==
    { l \in SeqsUpTo(DirEntries, MaxEntries) :
        \A i, j \in 1..Len(l) : i # j => l[i] # l[j] }

\* the directory BatchConfig.directory names: missing, not a directory,
\* unreadable, or a directory with a listing
Directories ==
    { [exists |-> FALSE, is_dir |-> FALSE, readable |-> FALSE, entries |-> <<>>],
      [exists |-> TRUE, is_dir |-> FALSE, readable |-> FALSE, entries |-> <<>>],
      [exists |-> TRUE, is_dir |-> TRUE, readable |-> FALSE, entries |-> <<>>] } \cup
    { [exists |-> TRUE, is_dir |-> TRUE, readable |-> TRUE, entries |-> l] : l \in Listings }

\* str::to_ascii_lowercase on the extensions that occur
AsciiLower(text) ==
    CASE text = "JPG" -> "jpg"
      [] text = "PNG" -> "png"
      [] OTHER -> text

\* str::eq_ignore_ascii_case
eq_ignore_ascii_case(a, b) == AsciiLower(a) = AsciiLower(b)

\* a filter that compares the extension as it is spelt
is_supported_image_CaseSensitive(entry) ==
    /\ entry.extension # ""
    /\ \E k \in 1..Len(supported_formats) : supported_formats[k] = entry.extension

\* BatchProcessor::is_supported_image
is_supported_image(entry) ==
    /\ entry.extension # ""
    /\ \E k \in 1..Len(supported_formats) :
           eq_ignore_ascii_case(supported_formats[k], entry.extension)

RECURSIVE collect_entries(_, _, _)
\* collect_files_recursive: the loop over the entries of a directory, and
\* through it the call on a subdirectory when self.config.recursive
collect_entries(self_config, entries, files) ==
    IF entries = <<>> THEN [ok |-> TRUE, files |-> files]
    ELSE LET entry == Head(entries)
         IN  IF entry.kind = "file"
             THEN collect_entries(self_config, Tail(entries),
                      IF is_supported_image(entry) THEN Append(files, entry.path)
                      ELSE files)
             ELSE IF entry.kind = "dir" /\ self_config.recursive
             THEN IF ~entry.readable THEN [ok |-> FALSE, files |-> files]
                  ELSE LET sub == collect_entries(self_config, entry.entries, files)
                       IN  IF ~sub.ok THEN sub
                           ELSE collect_entries(self_config, Tail(entries), sub.files)
             ELSE collect_entries(self_config, Tail(entries), files)

\* BatchProcessor::collect_image_files
collect_image_files(self_config, directory) ==
    IF ~directory.exists \/ ~directory.is_dir \/ ~directory.readable
    THEN [ok |-> FALSE, files |-> <<>>]
    ELSE collect_entries(self_config, directory.entries, <<>>)

-----------------------------------------------------------------------------
(* BatchProcessor: process_file and process_batch. *)

\* the images detect_and_decode hands to its decoder for the image it was
\* given: one per combination whose transform succeeds
TransformedImages(image) ==
    { Brute_apply_transform(image, generate_param_combinations[k], FALSE, TRUE).image :
        k \in 1..Len(generate_param_combinations) }

\* Every list detect_and_decode(image) can return: the empty one when no
\* combination hits, or the merged answer of the decoder at the hit.
detect_and_decode_returns(image) ==
    {<<>>} \cup
    { push_unless_duplicate(BruteForceConfig_default, d.results, <<>>) :
        d \in { a \in { WeChat_decode_qr_codes(raw, ProcessingConfig_default_min_confidence, t) :
                          raw \in WeChatOutcomes, t \in TransformedImages(image) } :
                  a.ok /\ a.results # <<>> } }

\* the same, tabulated for the images a file may hold
DecodeReturns == [image \in ColorImages |-> detect_and_decode_returns(image)]

\* the stepwise search returns nothing but what is tabulated (SpecBrute)
ReturnsAreTabulated ==
    bf_pc = "done" /\ bf_image \in ColorImages => bf_ret.results \in DecodeReturns[bf_image]

\* lines 103-115: a QRCodeResult as the QrResult of the batch interface
QrResult(qr_result) ==
    [content |-> qr_result.content,
     points |-> Box(qr_result.position.x, qr_result.position.y,
                    qr_result.position.width, qr_result.position.height)]

\* what imread makes of a file: an error, an empty Mat, or an image
LoadOutcomes ==
    { [kind |-> "error", image |-> [width |-> 0, height |-> 0, channels |-> 0]],
      [kind |-> "empty", image |-> [width |-> 0, height |-> 0, channels |-> 0]] } \cup
    { [kind |-> "image", image |-> img] : img \in ColorImages }

\* decode_with_brute_force(file_path, expected_count, randomize) for what
\* imread loaded and what detect_and_decode returned for it (searched says
\* whether detect_and_decode was called at all)
decode_with_brute_force(load, qr_results) ==
    IF load.kind = "error"
    THEN [ok |-> FALSE, results |-> <<>>, error |-> "DecodeError: load image", searched |-> FALSE]
    ELSE IF load.kind = "empty"
    THEN [ok |-> FALSE, results |-> <<>>, error |-> "InvalidInput: image is empty",
          searched |-> FALSE]
    ELSE [ok |-> TRUE, results |-> [k \in 1..Len(qr_results) |-> QrResult(qr_results[k])],
          error |-> "", searched |-> TRUE]

\* start_time.elapsed() of one process_file call, in seconds
ProcessingTimes == {1, 2}

\* a process_file that calls a file successful only from two QR codes on
process_file_SuccessFromTwo(file_path, answer, processing_time) ==
    IF answer.ok
    THEN [file_path |-> file_path, results |-> answer.results,
          processing_time |-> processing_time,
          success |-> Len(answer.results) >= 2, error |-> ""]
    ELSE [file_path |-> file_path, results |-> <<>>,
          processing_time |-> processing_time, success |-> FALSE,
          error |-> answer.error]

\* BatchProcessor::process_file: the BatchResult for one answer of
\* decode_with_brute_force (error "" is None) that took processing_time
process_file(file_path, answer, processing_time) ==
    IF answer.ok
    THEN [file_path |-> file_path, results |-> answer.results,
          processing_time |-> processing_time,
          success |-> answer.results # <<>>, error |-> ""]
    ELSE [file_path |-> file_path, results |-> <<>>,
          processing_time |-> processing_time, success |-> FALSE,
          error |-> answer.error]

\* counters that leave a failed file out of failed_files
update_stats_FailureUncounted(stats, result) ==
    [stats EXCEPT !.processed_files = @ + 1,
                  !.total_processing_time = @ + result.processing_time,
                  !.successful_files = IF result.success THEN @ + 1 ELSE @,
                  !.total_qr_codes = IF result.success THEN @ + Len(result.results) ELSE @]

\* lines 286-295: the counters after one BatchResult
update_stats(stats, result) ==
    [stats EXCEPT !.processed_files = @ + 1,
                  !.total_processing_time = @ + result.processing_time,
                  !.successful_files = IF result.success THEN @ + 1 ELSE @,
                  !.total_qr_codes = IF result.success THEN @ + Len(result.results) ELSE @,
                  !.failed_files = IF result.success THEN @ ELSE @ + 1]

RECURSIVE SumOver(_, _)
\* the sum of f[k] over k = 1..n
SumOver(f, n) == IF n = 0 THEN 0 ELSE f[n] + SumOver(f, n - 1)

\* main.rs process_batch, lines 255-262: the stats of the summary, rebuilt
\* from the returned BatchResults
main_rebuild_stats(batch_result) ==
    LET successful_files == Len(SelectSeq(batch_result, LAMBDA r : r.success))
        n == Len(batch_result)
    IN  [total_files |-> n,
         processed_files |-> n,
         successful_files |-> successful_files,
         failed_files |-> n - successful_files,
         total_qr_codes |-> SumOver([k \in 1..n |-> Len(batch_result[k].results)], n),
         total_processing_time |-> SumOver([k \in 1..n |-> batch_result[k].processing_time], n)]


\* to false), BatchProcessor::new, then BatchProcessor::process_batch up to the
\* loop: collect the files, total_files.  Either step may return Err.
BaCall ==
    /\ ba_pc = "idle"
    /\ \E args \in [recursive : BOOLEAN, randomize : BOOLEAN], directory \in Directories :
         /\ ba_args' = args
         /\ ba_config' = [recursive |-> args.recursive, randomize |-> FALSE]
         /\ ba_directory' = directory
         /\ IF ~BruteForceDecoder_new
            THEN /\ ba_pc' = "done"
                 /\ ba_ret' = [ok |-> FALSE, results |-> <<>>, error |-> "BatchProcessor::new"]
                 /\ UNCHANGED <<ba_files, ba_i, ba_stats>>
            ELSE \E c \in {collect_image_files(ba_config', directory)} :
                   IF ~c.ok
                   THEN /\ ba_pc' = "done"
                        /\ ba_ret' = [ok |-> FALSE, results |-> <<>>,
                                      error |-> "collect_image_files"]
                        /\ UNCHANGED <<ba_files, ba_i, ba_stats>>
                   ELSE /\ ba_pc' = "loop"
                        /\ ba_files' = c.files
                        /\ ba_i' = 1
                        /\ ba_stats' = [BatchStats_new EXCEPT !.total_files = Len(c.files)]
                        /\ UNCHANGED ba_ret
    /\ UNCHANGED <<ba_results, ba_strategies, ba_shuffled, ba_callbacks, ba_main_stats, baOthers>>

\* lines 270-275 altered: a file whose decode returns Err ends the run with
\* that error
BaProcessFile_AbortOnError ==
    /\ ba_pc = "loop"
    /\ ba_i <= Len(ba_files)
    /\ \E load \in LoadOutcomes :
         \E qr_results \in (IF load.kind = "image" THEN DecodeReturns[load.image] ELSE {<<>>}) :
         \E processing_time \in ProcessingTimes :
           \E result \in {process_file(ba_files[ba_i], decode_with_brute_force(load, qr_results),
                                       processing_time)} :
             IF result.error # ""
             THEN /\ ba_pc' = "done"
                  /\ ba_ret' = [ok |-> FALSE, results |-> <<>>, error |-> result.error]
                  /\ UNCHANGED <<ba_stats, ba_results, ba_strategies, ba_shuffled, ba_i>>
             ELSE /\ ba_stats' = update_stats(ba_stats, result)
                  /\ ba_results' = Append(ba_results, result)
                  /\ ba_strategies' = Append(ba_strategies, <<"brute_force">>)
                  /\ ba_shuffled' = Append(ba_shuffled, ba_config.randomize)
                  /\ ba_i' = ba_i + 1
                  /\ UNCHANGED <<ba_pc, ba_ret>>
    /\ ba_callbacks' = Append(ba_callbacks, ba_stats)
    /\ UNCHANGED <<ba_config, ba_directory, ba_files, ba_args, ba_main_stats, baOthers>>

\* a loop that calls progress_callback after the counters are updated
BaProcessFile_CallbackAfterUpdate ==
    /\ ba_pc = "loop"
    /\ ba_i <= Len(ba_files)
    /\ \E load \in LoadOutcomes :
         \E qr_results \in (IF load.kind = "image" THEN DecodeReturns[load.image] ELSE {<<>>}) :
         \E processing_time \in ProcessingTimes :
           \E result \in {process_file(ba_files[ba_i], decode_with_brute_force(load, qr_results),
                                       processing_time)} :
             /\ ba_stats' = update_stats(ba_stats, result)
             /\ ba_results' = Append(ba_results, result)
             /\ ba_strategies' = Append(ba_strategies, <<"brute_force">>)
             /\ ba_shuffled' = IF load.kind = "image"
                               THEN Append(ba_shuffled, ba_config.randomize)
                               ELSE ba_shuffled
    /\ ba_callbacks' = Append(ba_callbacks, ba_stats')
    /\ ba_i' = ba_i + 1
    /\ UNCHANGED <<ba_pc, ba_config, ba_directory, ba_files, ba_ret, ba_args, ba_main_stats,
                   baOthers>>

\* lines 251-297: one turn of the loop over the collected files.  The
\* callback is handed the stats as they are; process_file calls
\* decode_with_brute_force and nothing else, which searches the loaded image
\* with self.config.randomize; the BatchResult updates the counters and is
\* pushed.
BaProcessFile ==
    /\ ba_pc = "loop"
    /\ ba_i <= Len(ba_files)
    /\ \E load \in LoadOutcomes :
         \E qr_results \in (IF load.kind = "image" THEN DecodeReturns[load.image] ELSE {<<>>}) :
         \E processing_time \in ProcessingTimes :
           \E result \in {process_file(ba_files[ba_i], decode_with_brute_force(load, qr_results),
                                       processing_time)} :
             /\ ba_stats' = update_stats(ba_stats, result)
             /\ ba_results' = Append(ba_results, result)
             /\ ba_strategies' = Append(ba_strategies, <<"brute_force">>)
             /\ ba_shuffled' = IF load.kind = "image"
                               THEN Append(ba_shuffled, ba_config.randomize)
                               ELSE ba_shuffled
    /\ ba_callbacks' = Append(ba_callbacks, ba_stats)
    /\ ba_i' = ba_i + 1
    /\ UNCHANGED <<ba_pc, ba_config, ba_directory, ba_files, ba_ret, ba_args, ba_main_stats,
                   baOthers>>

\* line 300: Ok(results), from which main's process_batch rebuilds the stats
\* of its summary
BaReturn ==
    /\ ba_pc = "loop"
    /\ ba_i > Len(ba_files)
    /\ ba_pc' = "done"
    /\ ba_ret' = [ok |-> TRUE, results |-> ba_results, error |-> ""]
    /\ ba_main_stats' = main_rebuild_stats(ba_results)
    /\ UNCHANGED <<ba_config, ba_directory, ba_files, ba_i, ba_stats, ba_results,
                   ba_strategies, ba_args, ba_shuffled, ba_callbacks, baOthers>>

InitBatch ==
    /\ models_present \in BOOLEAN
    /\ AllIdle

NextBatch == BaCall \/ BaProcessFile \/ BaReturn

SpecBatch == InitBatch /\ [][NextBatch]_vars

-----------------------------------------------------------------------------
(* Claims about the batch run. *)

\* a file whose extension is one of the supported ones, in any letter case
HoldsSupportedExtension(entry) ==
    /\ entry.kind = "file"
    /\ AsciiLower(entry.extension) \in Elements(supported_formats)

PathsOf(entries) == [k \in 1..Len(entries) |-> entries[k].path]

FilePathsOf(batch_results) == [k \in 1..Len(batch_results) |-> batch_results[k].file_path]

\* the supported files of a listing in listing order, those of its
\* subdirectories in their place when recursive is set
SupportedFiles(entries, recursive) ==
    Flatten([k \in 1..Len(entries) |->
        IF HoldsSupportedExtension(entries[k]) THEN <<entries[k].path>>
        ELSE IF entries[k].kind = "dir" /\ recursive
        THEN PathsOf(SelectSeq(entries[k].entries, HoldsSupportedExtension))
        ELSE <<>>])

\* C15: once the files of the directory are collected, total_files is the
\* number N of its files with a supported extension, counting the files of
\* subdirectories only when recursive is set; the files attempted so far are
\* the first of exactly those N, and when the run returns all N and no other
\* file have been attempted.
C15_AttemptsExactlySupportedFiles ==
    (ba_pc = "loop" \/ (ba_pc = "done" /\ ba_ret.ok)) =>
        \E expected \in {SupportedFiles(ba_directory.entries, ba_config.recursive)} :
            /\ ba_stats.total_files = Len(expected)
            /\ Len(ba_results) <= Len(expected)
            /\ FilePathsOf(ba_results) = SubSeq(expected, 1, Len(ba_results))
            /\ ba_pc = "done" => Len(ba_results) = Len(expected)

\* a finished recursive run over a directory with a supported file in upper
\* case, an unsupported file and a subdirectory holding one file of each kind
C15_Witness ==
    /\ ba_pc = "done" /\ ba_ret.ok
    /\ ba_config.recursive
    /\ PathsOf(ba_directory.entries) = <<"b.JPG", "c.txt", "sub">>
    /\ FilePathsOf(ba_ret.results) = <<"b.JPG", "sub/g.bmp">>
    /\ ba_stats.total_files = 2

\* C16: a file's failure never ends the run.  While the loop runs and when it
\* has returned, processed_files is the number of files attempted, one
\* BatchResult stands for each of them in collection order, and a file whose
\* decode returned an error is recorded with success = false and the error's
\* message; a run that entered the loop returns Ok with one BatchResult per
\* collected file, and Err is returned only before the first file.
C16_NeverAbortsOnFileFailure ==
    /\ ba_pc = "loop" =>
          /\ ba_stats.processed_files = ba_i - 1
          /\ Len(ba_results) = ba_i - 1
          /\ FilePathsOf(ba_results) = SubSeq(ba_files, 1, ba_i - 1)
          /\ ba_stats.successful_files + ba_stats.failed_files = ba_stats.processed_files
          /\ \A k \in 1..Len(ba_results) :
                ba_results[k].error # "" =>
                    ~ba_results[k].success /\ ba_results[k].results = <<>>
    /\ ba_pc = "done" /\ ba_ret.ok =>
          /\ ba_stats.processed_files = Len(ba_files)
          /\ FilePathsOf(ba_ret.results) = ba_files
          /\ ba_ret.results = ba_results
    /\ ba_pc = "done" /\ ~ba_ret.ok =>
          /\ ba_results = <<>>
          /\ ba_stats.processed_files = 0
          /\ ba_ret.error \in {"BatchProcessor::new", "collect_image_files"}

\* a returned run over three files: the first could not be loaded, the second
\* decoded to a symbol, the third decoded to nothing
C16_Witness ==
    /\ ba_pc = "done" /\ ba_ret.ok
    /\ Len(ba_ret.results) = 3
    /\ ba_stats.processed_files = 3
    /\ ba_ret.results[1].error # "" /\ ~ba_ret.results[1].success
    /\ ba_ret.results[2].success /\ ba_ret.results[2].results # <<>>
    /\ ba_ret.results[3].error = "" /\ ~ba_ret.results[3].success

\* C17: for each file of a batch run the enhanced strategy is run first, and
\* the brute-force strategy only after the enhanced one found nothing.
C17_EnhancedFirstPerFile ==
    \A k \in 1..Len(ba_strategies) :
        /\ ba_strategies[k] # <<>>
        /\ ba_strategies[k][1] = "enhanced"
        /\ "brute_force" \in Elements(ba_strategies[k]) =>
              ba_strategies[k] = <<"enhanced", "brute_force">>

\* C18: with a WeChat model file missing the batch pipeline still runs to
\* completion: over a directory whose files can be collected, the run
\* returns Ok.
C18_BatchRunsWithoutModels ==
    /\ ~models_present
    /\ ba_pc = "done"
    /\ collect_image_files(ba_config, ba_directory).ok
    => ba_ret.ok

-----------------------------------------------------------------------------
(* Claims about failures inside the two searches. *)

\* C19: in detect_and_decode a failed transform or a failed decoder call at
\* one combination is dropped and the loop goes to the next combination;
\* the call only ever returns Ok; no more than the 4320 combinations of
\* the grid are attempted; and the list returned is empty exactly when no
\* combination decoded to a non-empty list, which is only after the last
\* combination.
C19_BruteFailuresSwallowed ==
    /\ [](/\ bf_pc # "idle" => bf_total = 4320 /\ bf_i \in 1..(bf_total + 1)
          /\ bf_pc \in {"transform_err", "decode_err"} => bf_i <= bf_total
          /\ bf_pc = "done" =>
                /\ bf_ret.ok
                /\ bf_ret.results = <<>> <=> bf_hit = 0
                /\ bf_hit = 0 => bf_i = bf_total + 1
                /\ bf_hit # 0 => bf_i = bf_hit /\ bf_hit <= bf_total)
    /\ [][(bf_pc \in {"transform_err", "decode_err"}) =>
            (bf_pc' = "loop" /\ bf_i' = bf_i + 1 /\ bf_ret' = bf_ret)]_vars

\* the decoder failed at a combination after the first one
C19_Witness ==
    /\ bf_pc = "decode_err"
    /\ bf_i > 1
    /\ bf_hit = 0

\* C20: in decode_with_transforms a failed transform or a failed decoder is
\* followed by the next transform; the call only ever returns Ok; and the
\* list returned is empty exactly when no transform decoded to a non-empty
\* list, which is only after every transform of the list has had its turn.
C20_EnhancedFailuresSwallowed ==
    /\ en_pc # "idle" => en_i \in 1..(Len(get_transform_sequence) + 1)
    /\ en_swallowed # "" => en_pc = "loop" /\ en_i > 1 /\ en_hit = 0
    /\ en_pc = "done" =>
          /\ en_ret.ok
          /\ en_ret.results = <<>> <=> en_hit = 0
          /\ en_hit = 0 => en_i = Len(get_transform_sequence) + 1
          /\ en_hit # 0 => en_i = en_hit /\ en_hit <= Len(get_transform_sequence)

\* a transform after the first one failed and the loop stands at the next
C20_Witness ==
    /\ en_pc = "loop"
    /\ en_swallowed = "transform"
    /\ en_i > 2
    /\ en_i <= Len(get_transform_sequence)

-----------------------------------------------------------------------------
(* The transform functions, each called by itself. *)

\* enhanced_processor.rs 277-279 and 300-302: an even kernel size becomes the
\* next odd one
odd_kernel_size(kernel_size) ==
    IF kernel_size % 2 = 0 THEN kernel_size + 1 ELSE kernel_size

\* apply_gaussian_blur(image, kernel_size): GaussianBlur rejects a kernel
\* that is not odd and positive
apply_gaussian_blur(image, kernel_size, primitives_ok) ==
    [ok |-> primitives_ok /\ odd_kernel_size(kernel_size) % 2 = 1
              /\ odd_kernel_size(kernel_size) > 0,
     image |-> image, steps |-> <<"gaussian_blur">>, ksize |-> odd_kernel_size(kernel_size)]

\* apply_median_blur(image, kernel_size): medianBlur rejects a kernel that
\* is not odd
apply_median_blur(image, kernel_size, primitives_ok) ==
    [ok |-> primitives_ok /\ odd_kernel_size(kernel_size) % 2 = 1,
     image |-> image, steps |-> <<"median_blur">>, ksize |-> odd_kernel_size(kernel_size)]

\* kernel sizes a TransformType may carry, those of get_transform_sequence
\* (3, 5, 7) among them
KernelSizes == 1..8

\* TransformParams beside those of the grid: the fields are public and any
\* value may be put in them
OtherParams ==
    [contrast : {1}, brightness : {0}, blur : {0, 1, -1, 2, -2, 4, 6, 3},
     scale : {10, 5}, grayscale : BOOLEAN, binary : BOOLEAN]

TrParams == Elements(generate_param_combinations) \cup OtherParams

TrImages == ColorImages \cup GrayImages

\* BruteForceDecoder::apply_transform(image, params, invert)
TrCallBrute ==
    /\ tr_pc = "idle"
    /\ \E image \in TrImages, params \in TrParams, invert \in BOOLEAN, primitives_ok \in BOOLEAN :
         /\ tr_call' = [function |-> "BruteForceDecoder::apply_transform", image |-> image,
                        params |-> params, invert |-> invert, kernel_size |-> 0,
                        primitives_ok |-> primitives_ok]
         /\ \E t \in {Brute_apply_transform(image, params, invert, primitives_ok)} :
              tr_ret' = [ok |-> t.ok, image |-> t.image, steps |-> t.steps,
                         ksize |-> IF "gaussian_blur" \in Elements(t.steps)
                                   THEN Brute_blur_ksize(params) ELSE 0]
    /\ tr_pc' = "done"
    /\ UNCHANGED trOthers

\* EnhancedImageProcessor::apply_gaussian_blur / apply_median_blur
TrCallEnhancedBlur ==
    /\ tr_pc = "idle"
    /\ \E image \in TrImages, kernel_size \in KernelSizes, primitives_ok \in BOOLEAN,
          function \in {"apply_gaussian_blur", "apply_median_blur"} :
         /\ tr_call' = [function |-> function, image |-> image, params |-> NoParams,
                        invert |-> FALSE, kernel_size |-> kernel_size,
                        primitives_ok |-> primitives_ok]
         /\ tr_ret' = IF function = "apply_gaussian_blur"
                      THEN apply_gaussian_blur(image, kernel_size, primitives_ok)
                      ELSE apply_median_blur(image, kernel_size, primitives_ok)
    /\ tr_pc' = "done"
    /\ UNCHANGED trOthers

\* the caller takes the result
TrReturn ==
    /\ tr_pc = "done"
    /\ tr_pc' = "idle"
    /\ tr_call' = [function |-> "", image |-> NoImage, params |-> NoParams, invert |-> FALSE,
                   kernel_size |-> 0, primitives_ok |-> FALSE]
    /\ tr_ret' = [ok |-> FALSE, image |-> NoImage, steps |-> <<>>, ksize |-> 0]
    /\ UNCHANGED trOthers

InitTransform == models_present \in BOOLEAN /\ AllIdle

NextTransform == TrCallBrute \/ TrCallEnhancedBlur \/ TrReturn

SpecTransform == InitTransform /\ [][NextTransform]_vars

\* the place of a primitive in the order scale, brightness/contrast, blur,
\* grayscale, binarize, invert
StepRank(name) ==
    CASE name = "resize" -> 1
      [] name = "convert_to" -> 2
      [] name = "gaussian_blur" -> 3
      [] name = "cvt_color" -> 4
      [] name = "threshold" -> 5
      [] name = "bitwise_not" -> 6

\* C21: the primitives apply_transform invoked, in the order it invoked
\* them, follow the order scale, brightness/contrast, blur, grayscale,
\* binarize, invert: each comes later in that order than the one before it,
\* and only enabled steps are among them.
C21_StepsInFixedOrder ==
    tr_pc = "done" /\ tr_call.function = "BruteForceDecoder::apply_transform" =>
        /\ \A k \in 1..(Len(tr_ret.steps) - 1) :
              StepRank(tr_ret.steps[k]) < StepRank(tr_ret.steps[k + 1])
        /\ "resize" \in Elements(tr_ret.steps) => tr_call.params.scale # 10
        /\ "cvt_color" \in Elements(tr_ret.steps) => tr_call.params.grayscale
        /\ "threshold" \in Elements(tr_ret.steps) => tr_call.params.binary
        /\ "bitwise_not" \in Elements(tr_ret.steps) => tr_call.invert
        /\ tr_ret.ok =>
              /\ tr_call.params.grayscale => "cvt_color" \in Elements(tr_ret.steps)
              /\ tr_call.params.binary => "threshold" \in Elements(tr_ret.steps)
              /\ tr_call.invert => "bitwise_not" \in Elements(tr_ret.steps)

\* a call with every step enabled that ran all six primitives
C21_Witness ==
    /\ tr_pc = "done"
    /\ tr_call.function = "BruteForceDecoder::apply_transform"
    /\ tr_ret.ok
    /\ tr_ret.steps = <<"resize", "convert_to", "gaussian_blur", "cvt_color", "threshold",
                         "bitwise_not">>

C27_GrayInputSucceeds ==
    (/\ tr_pc = "done"
     /\ tr_call.function = "BruteForceDecoder::apply_transform"
     /\ tr_call.image.channels = 1)
    => tr_ret.ok = Brute_apply_transform([tr_call.image EXCEPT !.channels = 3],
                                         tr_call.params, tr_call.invert,
                                         tr_call.primitives_ok).ok

-----------------------------------------------------------------------------
(* BatchStats: the figures derived from the counters and the clock. *)

\* f64 values are kept as exact fractions num/den (den > 0); the rounding of
\* the f64 operations is left out
Frac(num, den) == [num |-> num, den |-> den]

FracLess(a, b) == a.num * b.den < b.num * a.den

\* the largest total_files read
MaxTotal == 5

\* start_time.elapsed() in milliseconds
Elapsed == {0, 60, 120, 180, 240, 300}

\* the stats a caller may read: process_batch keeps
\* processed_files <= total_files
StatsRead ==
    { [total_files |-> t, processed_files |-> p, elapsed |-> e] :
        t \in 0..MaxTotal, p \in 0..MaxTotal, e \in Elapsed } 

\* BatchStats::processing_speed, files per millisecond
processing_speed(stats) ==
    IF stats.processed_files = 0 THEN Frac(0, 1)
    ELSE IF stats.elapsed = 0 THEN Frac(0, 1)
    ELSE Frac(stats.processed_files, stats.elapsed)

\* an estimate that divides all the files, not the remaining ones, by the speed
estimated_remaining_time_OfAllFiles(stats) ==
    IF stats.processed_files = 0 \/ stats.total_files = 0 THEN Frac(0, 1)
    ELSE IF processing_speed(stats).num = 0 THEN Frac(0, 1)
    ELSE Frac(stats.total_files * processing_speed(stats).den, processing_speed(stats).num)

\* BatchStats::estimated_remaining_time, in milliseconds
estimated_remaining_time(stats) ==
    IF stats.processed_files = 0 \/ stats.total_files = 0 THEN Frac(0, 1)
    ELSE IF processing_speed(stats).num = 0 THEN Frac(0, 1)
    ELSE Frac((stats.total_files - stats.processed_files) * processing_speed(stats).den,
              processing_speed(stats).num)

\* BatchStats::progress_percentage
progress_percentage(stats) ==
    IF stats.total_files = 0 THEN Frac(0, 1)
    ELSE Frac(stats.processed_files * 100, stats.total_files)

Figures(stats) ==
    [progress_percentage |-> progress_percentage(stats),
     processing_speed |-> processing_speed(stats),
     estimated_remaining_time |-> estimated_remaining_time(stats)]

\* a caller reads the three figures of some stats
StRead ==
    /\ st_pc = "idle"
    /\ \E stats \in {r \in StatsRead : r.processed_files <= r.total_files} :
         /\ st_stats' = stats
         /\ st_figures' = Figures(stats)
    /\ st_previous' = NoFigures
    /\ st_pc' = "read"
    /\ UNCHANGED stOthers

\* one more file is processed at the throughput so far, and the figures are
\* read again
StNextFile ==
    /\ st_pc \in {"read", "next"}
    /\ st_stats.processed_files > 0
    /\ st_stats.processed_files < st_stats.total_files
    /\ st_stats.elapsed > 0
    /\ (st_stats.elapsed * (st_stats.processed_files + 1)) % st_stats.processed_files = 0
    /\ st_stats' = [st_stats EXCEPT
                       !.processed_files = @ + 1,
                       !.elapsed = (@ * (st_stats.processed_files + 1))
                                       \div st_stats.processed_files]
    /\ st_figures' = Figures(st_stats')
    /\ st_previous' = st_figures
    /\ st_pc' = "next"
    /\ UNCHANGED stOthers

\* the caller is done with the figures
StDrop ==
    /\ st_pc \in {"read", "next"}
    /\ st_pc' = "idle"
    /\ st_stats' = [total_files |-> 0, processed_files |-> 0, elapsed |-> 0]
    /\ st_figures' = NoFigures
    /\ st_previous' = NoFigures
    /\ UNCHANGED stOthers

InitStats == models_present \in BOOLEAN /\ AllIdle

NextStats == StRead \/ StNextFile \/ StDrop

SpecStats == InitStats /\ [][NextStats]_vars

\* C22: estimated_remaining_time is zero when processed_files or total_files
\* is 0; otherwise it is (total_files - processed_files) divided by
\* processed_files / elapsed, that is (total - processed) * elapsed / processed;
\* it is zero when processed_files = total_files; and one file later at the
\* same throughput it is smaller than before.
C22_RemainingTimeFormula ==
    st_pc \in {"read", "next"} =>
        \E eta \in {st_figures.estimated_remaining_time} :
            /\ eta.den > 0
            /\ (st_stats.processed_files = 0 \/ st_stats.total_files = 0) => eta.num = 0
            /\ (st_stats.processed_files # 0 /\ st_stats.total_files # 0) =>
                  eta.num * st_stats.processed_files
                    = (st_stats.total_files - st_stats.processed_files) * st_stats.elapsed * eta.den
            /\ st_stats.processed_files = st_stats.total_files => eta.num = 0
            /\ st_pc = "next" => FracLess(eta, st_previous.estimated_remaining_time)

\* the last file of five was processed at the throughput of the first four:
\* the estimate fell from a positive value to zero
C22_Witness ==
    /\ st_pc = "next"
    /\ st_stats.total_files = 5
    /\ st_stats.processed_files = 5
    /\ st_figures.estimated_remaining_time.num = 0
    /\ st_previous.estimated_remaining_time.num > 0

-----------------------------------------------------------------------------
(* main: one run of the program is a batch run or a single-file run. *)

\* main.rs 63-113: process_batch in batch mode, process_image otherwise
InitMain == models_present \in BOOLEAN /\ AllIdle

NextMain ==
    \/ (pi_pc = "idle" /\ NextBatch)
    \/ (ba_pc = "idle" /\ NextPipeline)

SpecMain == InitMain /\ [][NextMain]_vars

C24_OriginalImageFirst ==
    /\ get_transform_sequence # <<>>
    /\ get_transform_sequence[1] = <<"Original", 0, 0>>
    /\ en_pc # "idle" => en_i >= 1
    /\ en_pc = "decoding" /\ en_i = 1 => td_image = en_image
    /\ en_pc = "loop" /\ en_i = 2 => en_swallowed = ""
    /\ en_swallowed = "transform" => en_i > 2

\* the decoder of the first turn has answered for the image the call was given
C24_Witness ==
    /\ en_pc = "decoding"
    /\ en_i = 1
    /\ td_pc = "done"
    /\ td_image = en_image
    /\ get_transform_sequence[en_i][1] = "Original"

-----------------------------------------------------------------------------
(* The counters of BatchStats during process_batch. *)

\* the number of QR codes of the successful files among batch_results
QrCodesOfSuccessful(batch_results) ==
    SumOver([k \in 1..Len(batch_results) |->
                IF batch_results[k].success THEN Len(batch_results[k].results) ELSE 0],
            Len(batch_results))

\* a <= b in every counter
CountersLeq(a, b) ==
    /\ a.processed_files <= b.processed_files
    /\ a.successful_files <= b.successful_files
    /\ a.failed_files <= b.failed_files
    /\ a.total_qr_codes <= b.total_qr_codes
    /\ a.total_processing_time <= b.total_processing_time

\* C26: in every state of process_batch after the collection,
\* processed_files = successful_files + failed_files = the number of
\* BatchResults collected, processed_files <= total_files, total_qr_codes is
\* the number of QR codes of the successful files, and processed_files =
\* total_files when the run returns; so total_files - processed_files is
\* never negative and progress_percentage lies in [0, 100].  No step lowers a
\* counter, and no step after the collection changes total_files.
C26_CountersConsistent ==
    /\ [](ba_pc = "loop" \/ (ba_pc = "done" /\ ba_ret.ok) =>
            /\ ba_stats.processed_files = ba_stats.successful_files + ba_stats.failed_files
            /\ ba_stats.processed_files = Len(ba_results)
            /\ ba_stats.processed_files <= ba_stats.total_files
            /\ ba_stats.total_qr_codes = QrCodesOfSuccessful(ba_results)
            /\ ba_stats.total_files - ba_stats.processed_files >= 0
            /\ ~FracLess(progress_percentage(ba_stats), Frac(0, 1))
            /\ ~FracLess(Frac(100, 1), progress_percentage(ba_stats))
            /\ (ba_pc = "done" => ba_stats.processed_files = ba_stats.total_files))
    /\ [][(CountersLeq(ba_stats, ba_stats'))
          /\ ((ba_pc = "loop") => (ba_stats'.total_files = ba_stats.total_files))]_vars

\* a run has returned after files that succeeded, with more than one QR code
\* in all, and files that failed
C26_Witness ==
    /\ ba_pc = "done"
    /\ ba_ret.ok
    /\ ba_stats.successful_files >= 1
    /\ ba_stats.failed_files >= 1
    /\ ba_stats.total_qr_codes >= 2
    /\ ba_stats.processed_files = ba_stats.total_files

\* C28: in a batch run detect_and_decode shuffles the combination grid if and
\* only if the user asked for randomize: every search of the run was made
\* shuffled exactly when the arguments have randomize set.
C28_RandomizeReachesSearch ==
    \A k \in 1..Len(ba_shuffled) : ba_shuffled[k] <=> ba_args.randomize

\* C29: when BatchProcessor::process_batch has returned Ok, the stats main
\* rebuilds from the returned BatchResults equal the stats the run
\* accumulated, in total_files, processed_files, successful_files,
\* failed_files, total_qr_codes and total_processing_time.
C29_RebuiltStatsEqualAccumulated ==
    ba_pc = "done" /\ ba_ret.ok =>
        /\ ba_main_stats.total_files = ba_stats.total_files
        /\ ba_main_stats.processed_files = ba_stats.processed_files
        /\ ba_main_stats.successful_files = ba_stats.successful_files
        /\ ba_main_stats.failed_files = ba_stats.failed_files
        /\ ba_main_stats.total_qr_codes = ba_stats.total_qr_codes
        /\ ba_main_stats.total_processing_time = ba_stats.total_processing_time

\* the stats were rebuilt from the results of a run of several files, one of
\* which failed and one of which held a QR code
C29_Witness ==
    /\ ba_pc = "done"
    /\ ba_ret.ok
    /\ Len(ba_ret.results) >= 2
    /\ ba_main_stats.failed_files >= 1
    /\ ba_main_stats.total_qr_codes >= 1
    /\ ba_main_stats.total_processing_time >= 3

\* C30: progress_callback is invoked once per collected file, in the turn of
\* that file and with the counters as they are before the file is counted:
\* the k-th invocation is handed processed_files = k - 1 and total_files = N,
\* so never processed_files = total_files; after k files there have been k
\* invocations, N when the run returns, and none when no file was collected.
C30_CallbackBeforeEachFile ==
    /\ [](/\ \A k \in 1..Len(ba_callbacks) :
               /\ ba_callbacks[k].processed_files = k - 1
               /\ ba_callbacks[k].total_files = Len(ba_files)
               /\ ba_callbacks[k].processed_files # ba_callbacks[k].total_files
           /\ Len(ba_callbacks) = Len(ba_results)
           /\ (ba_pc = "loop" => Len(ba_callbacks) = ba_i - 1)
           /\ (ba_pc = "done" /\ ba_ret.ok => Len(ba_callbacks) = Len(ba_files))
           /\ (ba_files = <<>> => ba_callbacks = <<>>))
    /\ [][(ba_callbacks' # ba_callbacks) =>
             (/\ ba_callbacks' = Append(ba_callbacks, ba_stats)
              /\ Len(ba_results') = Len(ba_results) + 1
              /\ ba_stats'.processed_files = ba_stats.processed_files + 1)]_vars

\* a run of three files has returned: the callback was invoked three times
\* and the last invocation saw two files processed
C30_Witness ==
    /\ ba_pc = "done"
    /\ ba_ret.ok
    /\ Len(ba_files) = 3
    /\ Len(ba_callbacks) = 3
    /\ ba_callbacks[3].processed_files = 2
    /\ ba_stats.processed_files = 3

====
